---- MODULE Spec2Model ----
(***************************************************************************)
(* Progress analytics of the OpenSpeak web client: the progress page       *)
(* (src/unnamed/part_000, pages/progress.tsx), the history page            *)
(* (pages/history.tsx) and the dashboard (pages/dashboard.tsx).            *)
(*                                                                         *)
(* JavaScript values are tagged records: [t |-> "undef"], [t |-> "null"],  *)
(* [t |-> "num", v |-> n], [t |-> "str", s |-> <<lexemes>>],               *)
(* [t |-> "arr"], [t |-> "obj", has |-> "score" in o, score |-> o.score].  *)
(* A string is the sequence of its lexemes.  Timestamps are counted in     *)
(* hours instead of milliseconds.                                          *)
(***************************************************************************)
EXTENDS Integers, Sequences, FiniteSets, TLC

VARIABLES
  server,    \* what GET /history answers: [ok, data] (the backend's copy)
  now,       \* Date.now() of this page load
  zone,      \* the browser's time zone: which local day is not 24 h long
  token,     \* getToken()
  pc,        \* "mount" | "fetching" | "done" | "login"
  ready, loading, err, items,         \* useState of ProgressPage
  sorted,                             \* useMemo [items]
  range, smooth, visible,             \* the controls
  hover,                              \* useState of ProgressPage: the tooltip
  download,                           \* what the last click on Export CSV gave
  route,                              \* the page that is mounted
  query, minScore, sortBy, page, pageSize,   \* useState of HistoryPage
  filteredSorted,                            \* useMemo of HistoryPage
  me, user,                           \* Dashboard: the /me request and useState user
  request,                            \* GeneratePage: the requests in flight, each with its closure
  storage                             \* localStorage[LS_KEY]

\* the controls and the list of the history page
historyVars == <<route, query, minScore, sortBy, page, pageSize, filteredSorted>>

\* what only the dashboard and only the generate page hold
dashboardVars == <<me, user>>
generateVars == <<request, storage>>
otherVars == <<dashboardVars, generateVars>>

vars == <<server, now, zone, token, pc, ready, loading, err, items, sorted,
          range, smooth, visible, hover, download, historyVars, otherVars>>

(* ------------------------------ bounds -------------------------------- *)

\* longest string section, in lexemes, that the normalizer is tried on
MaxLexemes == 3
\* longest history of each specification
MaxItems == 2
MaxRangeItems == 2
MaxStatsItems == 4
MaxStreakItems == 3
MaxSmoothItems == 4
MaxHoverItems == 2

(* ------------------------- JavaScript values -------------------------- *)

Undef == [t |-> "undef"]
Null == [t |-> "null"]
NaN == [t |-> "nan"]
Num(n) == [t |-> "num", v |-> n]
Str(s) == [t |-> "str", s |-> s]
Arr == [t |-> "arr"]
Obj(has, score) == [t |-> "obj", has |-> has, score |-> score]
Other == [t |-> "other"]

\* x ?? y
Nullish(x) == x.t \in {"undef", "null"}
Coalesce(x, y) == IF Nullish(x) THEN y ELSE x

\* typeof x === "number"
IsNumber(x) == x.t = "num"

\* the categories, in the order of the insights' keys array
Keys == <<"opening", "content", "delivery", "grammar", "overall">>
KeySet == {Keys[i] : i \in 1..Len(Keys)}

(* ------------------------------ JSON.parse ---------------------------- *)

\* lexemes: punctuation, white space, the string literal "score", another
\* string literal, a number literal, the literal null, and a bare word
StringLits == {"\"score\"", "\"summary\"", "\"ok\""}
NumberLits == {"80"}
Lexemes == {"{", "}", "[", "]", ",", ":", " ", "\"score\"", "80", "null", "word"}

RECURSIVE SkipWs(_, _)
SkipWs(s, i) == IF i <= Len(s) /\ s[i] = " " THEN SkipWs(s, i + 1) ELSE i

RECURSIVE NumberEnd(_, _)
NumberEnd(s, i) == IF i <= Len(s) /\ s[i] \in NumberLits THEN NumberEnd(s, i + 1) ELSE i

\* the value of a run of number literals written one after the other
RECURSIVE NumberValue(_, _, _)
NumberValue(s, i, j) == IF j <= i THEN 0 ELSE NumberValue(s, i, j - 1) * 100 + 80

Fail == [ok |-> FALSE, val |-> Undef, pos |-> 0]
Done(v, p) == [ok |-> TRUE, val |-> v, pos |-> p]

\* what o.score keeps of a parsed value
AsScore(v) == IF v.t \in {"num", "null"} THEN v ELSE Other

RECURSIVE ParseValue(_, _)
RECURSIVE ParseElements(_, _)
RECURSIVE ParseMembers(_, _, _, _)

ParseValue(s, i) ==
  LET j == SkipWs(s, i) IN
  IF j > Len(s) THEN Fail
  ELSE IF s[j] = "{" THEN
    LET k == SkipWs(s, j + 1) IN
    IF k <= Len(s) /\ s[k] = "}" THEN Done(Obj(FALSE, Undef), k + 1)
    ELSE ParseMembers(s, k, FALSE, Undef)
  ELSE IF s[j] = "[" THEN
    LET k == SkipWs(s, j + 1) IN
    IF k <= Len(s) /\ s[k] = "]" THEN Done(Arr, k + 1)
    ELSE ParseElements(s, k)
  ELSE IF s[j] \in StringLits THEN Done(Str(<<s[j]>>), j + 1)
  ELSE IF s[j] \in NumberLits THEN
    LET e == NumberEnd(s, j) IN Done(Num(NumberValue(s, j, e)), e)
  ELSE IF s[j] = "null" THEN Done(Null, j + 1)
  ELSE Fail

\* the elements of an array, from the first lexeme of an element on
ParseElements(s, i) ==
  LET r == ParseValue(s, i) IN
  IF ~r.ok THEN Fail
  ELSE LET k == SkipWs(s, r.pos) IN
    IF k > Len(s) THEN Fail
    ELSE IF s[k] = "]" THEN Done(Arr, k + 1)
    ELSE IF s[k] = "," THEN ParseElements(s, k + 1)
    ELSE Fail

\* the members of an object, from the first lexeme of a key on; a later
\* "score" member overrides an earlier one
ParseMembers(s, i, has, score) ==
  LET j == SkipWs(s, i) IN
  IF j > Len(s) \/ s[j] \notin StringLits THEN Fail
  ELSE LET c == SkipWs(s, j + 1) IN
    IF c > Len(s) \/ s[c] # ":" THEN Fail
    ELSE LET r == ParseValue(s, c + 1) IN
      IF ~r.ok THEN Fail
      ELSE LET k == SkipWs(s, r.pos)
               isScore == s[j] = "\"score\""
               has2 == has \/ isScore
               score2 == IF isScore THEN AsScore(r.val) ELSE score
           IN IF k > Len(s) THEN Fail
              ELSE IF s[k] = "}" THEN Done(Obj(has2, score2), k + 1)
              ELSE IF s[k] = "," THEN ParseMembers(s, k + 1, has2, score2)
              ELSE Fail

\* JSON.parse(s): [ok |-> FALSE] stands for the SyntaxError it throws
JSONparse(s) ==
  LET r == ParseValue(s, 1) IN
  IF r.ok /\ SkipWs(s, r.pos) > Len(s) THEN r ELSE Fail

(* ---------------------------- the normalizer -------------------------- *)

RECURSIVE TrimStart(_)
TrimStart(s) == IF s # <<>> /\ Head(s) = " " THEN TrimStart(Tail(s)) ELSE s

RECURSIVE TrimEnd(_)
TrimEnd(s) ==
  IF s # <<>> /\ s[Len(s)] = " " THEN TrimEnd(SubSeq(s, 1, Len(s) - 1)) ELSE s

trim(s) == TrimEnd(TrimStart(s))

startsWith(s, c) == s # <<>> /\ s[1] = c
endsWith(s, c) == s # <<>> /\ s[Len(s)] = c

LooksJSON(s) ==
  \/ startsWith(s, "{") /\ endsWith(s, "}")
  \/ startsWith(s, "[") /\ endsWith(s, "]")

\* how a call ends: it returns a value, or it throws
Return(v) == [threw |-> FALSE, val |-> v]
Throw == [threw |-> TRUE, val |-> Undef]

\* faulty variant: return JSON.parse(s) outside a try block
parseMaybeJSONNoCatch(v) ==
  IF v.t = "str" THEN
    LET s == trim(v.s) IN
    IF LooksJSON(s)
    THEN (IF JSONparse(s).ok THEN Return(JSONparse(s).val) ELSE Throw)
    ELSE Return(v)
  ELSE Return(v)

\* try { return JSON.parse(s); } catch { return v; }
parseMaybeJSON(v) ==
  IF v.t = "str" THEN
    LET s == trim(v.s) IN
    IF LooksJSON(s)
    THEN (IF JSONparse(s).ok THEN Return(JSONparse(s).val) ELSE Return(v))
    ELSE Return(v)
  ELSE Return(v)

(* --------------------------- the score resolver ----------------------- *)

\* sec && typeof sec === "object" && "score" in sec
CarriesScore(sec) == sec.t = "obj" /\ sec.has

\* fb.scores?.[key]
BlockScore(fb, key) == IF fb.scores.t = "map" THEN fb.scores.m[key] ELSE Undef

\* faulty variant: (inline || fromBlock) || null
FalsyOr(x, y) == IF Nullish(x) \/ x = Num(0) THEN y ELSE x
scoreOfOr(fb, key) ==
  IF fb.t = "undef" THEN Null
  ELSE LET sec == fb.sec[key]
           inline == IF CarriesScore(sec) THEN sec.score ELSE Null
           fromBlock == BlockScore(fb, key)
       IN FalsyOr(FalsyOr(inline, fromBlock), Null)

scoreOf(fb, key) ==
  IF fb.t = "undef" THEN Null
  ELSE LET sec == fb.sec[key]
           inline == IF CarriesScore(sec) THEN sec.score ELSE Null
           fromBlock == BlockScore(fb, key)
       IN Coalesce(Coalesce(inline, fromBlock), Null)

(* ------------------------------ arithmetic ---------------------------- *)

\* a quotient n / d of integers, d > 0, kept exact
Frac(n, d) == [n |-> n, d |-> d]
FracEq(a, b) == a.n * b.d = b.n * a.d
FracLess(a, b) == a.n * b.d < b.n * a.d
FracAdd(a, b) == Frac(a.n * b.d + b.n * a.d, a.d * b.d)
FracSub(a, b) == Frac(a.n * b.d - b.n * a.d, a.d * b.d)

\* Math.round(n / d): the nearest integer, a half rounded up
MathRound(n, d) == (2 * n + d) \div (2 * d)

RECURSIVE Sum(_)
Sum(s) == IF s = <<>> THEN 0 ELSE Head(s) + Sum(Tail(s))

\* Array.prototype.sort with a consistent comparator (stable): the index
\* that lands at each place, lt[j, i] saying that element j compares below i
SortIdx(n, lt) ==
  [r \in 1..n |->
     CHOOSE i \in 1..n :
       Cardinality({j \in 1..n : lt[j, i] \/ (~lt[i, j] /\ j < i)}) = r - 1]

Rearrangements(n) == {p \in [1..n -> 1..n] : \A i, j \in 1..n : p[i] = p[j] => i = j}

(* ------------------------------- dates -------------------------------- *)

\* 24 * 3600 * 1000 ms, in hours
Day == 24

\* created_at: absent (or ""), a string that is no date, or a date string
Iso(at) == [t |-> "iso", at |-> at]
BadDate == [t |-> "baddate"]

\* new Date(created_at).getTime()
getTime(c) == IF c.t = "iso" THEN Num(c.at) ELSE NaN

\* the instant local calendar day k starts; the day zone.day lasts
\* zone.len hours (23 or 25 where the clocks change), every other day 24
DayStart(k) == Day * k + (IF k > zone.day THEN zone.len - Day ELSE 0)

\* the local calendar day (year, month, date) of instant t
DayOf(t) ==
  CHOOSE k \in ((t \div Day) - 1)..((t \div Day) + 1) :
    DayStart(k) <= t /\ t < DayStart(k + 1)

\* new Date(d.getFullYear(), d.getMonth(), d.getDate()).getTime(), and
\* setHours(0,0,0,0)
LocalMidnight(t) == DayStart(DayOf(t))

(* ------------------------- fetch and normalize ------------------------ *)

\* s.feedback ? { ...s.feedback, opening: parseMaybeJSON(...), ... } : undefined
NormalizeFeedback(fb) ==
  IF fb.t = "undef" THEN Return(Undef)
  ELSE IF \E k \in KeySet : parseMaybeJSON(fb.sec[k]).threw THEN Throw
  ELSE Return([fb EXCEPT !.sec = [k \in KeySet |-> parseMaybeJSON(fb.sec[k]).val]])

\* one element of speeches.map(...)
Normalize(s) ==
  IF NormalizeFeedback(s.feedback).threw THEN Throw
  ELSE Return([id |-> s.id, transcript |-> s.transcript, created_at |-> s.created_at,
               feedback |-> NormalizeFeedback(s.feedback).val])

\* it.created_at ? new Date(it.created_at).getTime() : 0
SortKey(it) == IF it.created_at.t = "undef" THEN Num(0) ELSE getTime(it.created_at)

\* [...items].sort((a, b) => da - db): stable where the comparator is
\* consistent; with a NaN key it is not, and the order is the engine's
SortOutcomes(its) ==
  LET n == Len(its) IN
  IF \A i \in 1..n : SortKey(its[i]).t = "num"
  THEN LET lt == [j \in 1..n, i \in 1..n |-> SortKey(its[j]).v < SortKey(its[i]).v]
           p == SortIdx(n, lt)
       IN {[r \in 1..n |-> its[p[r]]]}
  ELSE {[r \in 1..n |-> its[p[r]]] : p \in Rearrangements(n)}

(* ------------------------------ the page ------------------------------ *)

AllVisible == [k \in KeySet |-> TRUE]

\* nothing of the dashboard or of the generate page is mounted
OtherInit ==
  /\ me = "idle"
  /\ user = Null
  /\ request = <<>>
  /\ storage = <<>>

PageInit ==
  /\ pc = "mount"
  /\ ready = FALSE
  /\ loading = TRUE
  /\ err = Null
  /\ items = <<>>
  /\ sorted = <<>>
  /\ range = "30"
  /\ smooth = TRUE
  /\ visible = AllVisible
  /\ hover = Null
  /\ download = Null
  /\ route = "/progress"
  /\ query = <<>>
  /\ minScore = Null
  /\ sortBy = "date_desc"
  /\ page = 1
  /\ pageSize = 10
  /\ filteredSorted = <<>>
  /\ OtherInit

\* the auth guard; once ready, the fetch effect issues GET /history
AuthGuard ==
  /\ pc = "mount"
  /\ IF token
     THEN /\ ready' = TRUE
          /\ loading' = TRUE
          /\ err' = Null
          /\ pc' = "fetching"
     ELSE /\ pc' = "login"
          /\ UNCHANGED <<ready, loading, err>>
  /\ UNCHANGED <<hover, download, historyVars, otherVars>>
  /\ UNCHANGED <<server, now, zone, token, items, sorted, range, smooth, visible>>

\* the message of the rejected request, or of what the try block threw
Message == Str(<<"word">>)

\* faulty variant: items.sort(...) in place of [...items].sort(...)
FetchOkSortInPlace ==
  /\ pc = "fetching"
  /\ server.ok
  /\ LET normalized == [i \in 1..Len(server.data) |-> Normalize(server.data[i])] IN
     IF \E i \in 1..Len(normalized) : normalized[i].threw
     THEN /\ err' = Message
          /\ UNCHANGED <<items, sorted>>
     ELSE /\ sorted' \in SortOutcomes([i \in 1..Len(normalized) |-> normalized[i].val])
          /\ items' = sorted'
          /\ err' = err
  /\ loading' = FALSE
  /\ pc' = "done"
  /\ UNCHANGED <<hover, download, historyVars, otherVars>>
  /\ UNCHANGED <<server, now, zone, token, ready, range, smooth, visible>>

\* GET /history answers: normalize and setItems, or catch and setErr
FetchOk ==
  /\ pc = "fetching"
  /\ server.ok
  /\ LET normalized == [i \in 1..Len(server.data) |-> Normalize(server.data[i])] IN
     IF \E i \in 1..Len(normalized) : normalized[i].threw
     THEN /\ err' = Message
          /\ UNCHANGED <<items, sorted>>
     ELSE /\ items' = [i \in 1..Len(normalized) |-> normalized[i].val]
          /\ sorted' \in SortOutcomes(items')
          /\ err' = err
  /\ loading' = FALSE
  /\ pc' = "done"
  /\ UNCHANGED <<hover, download, historyVars, otherVars>>
  /\ UNCHANGED <<server, now, zone, token, ready, range, smooth, visible>>

\* faulty variant: the catch block does not call setErr
FetchFailSilent ==
  /\ pc = "fetching"
  /\ ~server.ok
  /\ loading' = FALSE
  /\ pc' = "done"
  /\ UNCHANGED <<hover, download, historyVars, otherVars>>
  /\ UNCHANGED <<server, now, zone, token, ready, err, items, sorted, range, smooth, visible>>

\* GET /history is rejected
FetchFail ==
  /\ pc = "fetching"
  /\ ~server.ok
  /\ err' = Message
  /\ loading' = FALSE
  /\ pc' = "done"
  /\ UNCHANGED <<hover, download, historyVars, otherVars>>
  /\ UNCHANGED <<server, now, zone, token, ready, items, sorted, range, smooth, visible>>

Ranges == {"7", "30", "90", "all"}

\* faulty variant: range is among the dependencies of the fetch effect
SetRangeRefetch(r) ==
  /\ ready
  /\ range' = r
  /\ loading' = TRUE
  /\ err' = Null
  /\ pc' = "fetching"
  /\ UNCHANGED <<hover, download, historyVars, otherVars>>
  /\ UNCHANGED <<server, now, zone, token, ready, items, sorted, smooth, visible>>

SetRange(r) ==
  /\ ready
  /\ range' = r
  /\ UNCHANGED <<hover, download, historyVars, otherVars>>
  /\ UNCHANGED <<server, now, zone, token, pc, ready, loading, err, items, sorted,
                 smooth, visible>>

ToggleSmooth ==
  /\ ready
  /\ smooth' = ~smooth
  /\ UNCHANGED <<hover, download, historyVars, otherVars>>
  /\ UNCHANGED <<server, now, zone, token, pc, ready, loading, err, items, sorted,
                 range, visible>>

\* Legend onToggle
onToggle(k) ==
  /\ ready
  /\ visible' = [visible EXCEPT ![k] = ~visible[k]]
  /\ UNCHANGED <<hover, download, historyVars, otherVars>>
  /\ UNCHANGED <<server, now, zone, token, pc, ready, loading, err, items, sorted,
                 range, smooth>>

(* --------------------------- range and totals ------------------------- *)

\* parseInt(range, 10)
parseInt(r) == CASE r = "7" -> 7 [] r = "30" -> 30 [] r = "90" -> 90

\* it.created_at ? new Date(it.created_at).getTime() >= cutoff : false
InWindow(it, cutoff) ==
  IF it.created_at.t = "undef" THEN FALSE
  ELSE LET ts == getTime(it.created_at) IN ts.t = "num" /\ ts.v >= cutoff

filtered ==
  IF range = "all" THEN sorted
  ELSE LET cutoff == now - parseInt(range) * Day
           Keep(it) == InWindow(it, cutoff)
       IN SelectSeq(sorted, Keep)

\* faulty variant: const base = filtered
baseNoFallback == filtered

\* const base = filtered.length ? filtered : sorted
base == IF Len(filtered) # 0 THEN filtered ELSE sorted

\* faulty variant: a score that is no number counts as 0
NumericScoresZero(its, key) ==
  [i \in 1..Len(its) |->
     IF IsNumber(scoreOf(its[i].feedback, key)) THEN scoreOf(its[i].feedback, key).v ELSE 0]

\* the numeric resolved scores of a list of records, as numbers
NumericScores(its, key) ==
  LET scores == [i \in 1..Len(its) |-> scoreOf(its[i].feedback, key)]
      nums == SelectSeq(scores, IsNumber)
  IN [i \in 1..Len(nums) |-> nums[i].v]

\* a number with one decimal, kept as ten times its value
Tenths(n) == [t |-> "num", x10 |-> n]

getAvg(key) ==
  IF Len(base) = 0 THEN Null
  ELSE LET nums == NumericScores(base, key) IN
    IF Len(nums) = 0 THEN Null
    ELSE Tenths(MathRound(Sum(nums) * 10, Len(nums)))

\* the local midnights of the records' days: NaN and 0 fall to filter(Boolean)
StreakDays(its) ==
  {LocalMidnight(its[i].created_at.at) :
     i \in {j \in 1..Len(its) : /\ its[j].created_at.t = "iso"
                                 /\ LocalMidnight(its[j].created_at.at) # 0}}

\* for (;;) { if (days.includes(ts)) { s += 1; cursor = new Date(ts - 24 h) } else break }
RECURSIVE StreakFrom(_, _)
StreakFrom(days, ts) == IF ts \in days THEN 1 + StreakFrom(days, ts - Day) ELSE 0

calcStreak(its) ==
  IF Len(its) = 0 THEN 0
  ELSE IF StreakDays(its) = {} THEN 0
  ELSE StreakFrom(StreakDays(its), LocalMidnight(now))

streak == calcStreak(sorted)

(* ------------------- the history page's range filter ----------------- *)

\* HistoryPage keeps the same items and range; with an empty query and no
\* minimum score its filter is: ts = created_at ? getTime() : 0, and
\* if (range !== "all" && ts < cutoff) return false
HistoryInRange(it, r) ==
  LET ts == IF it.created_at.t = "undef" THEN Num(0) ELSE getTime(it.created_at)
  IN ~(r # "all" /\ ts.t = "num" /\ ts.v < now - parseInt(r) * Day)

HistoryKeep(it) == HistoryInRange(it, range)

historyFiltered == SelectSeq(items, HistoryKeep)

(* ------------------------------ insights ------------------------------ *)

\* faulty variant: Math.ceil(sorted.length / 2)
halfCeil == (Len(sorted) + 1) \div 2

\* Math.floor(sorted.length / 2)
half == Len(sorted) \div 2

\* (avg(second) - avg(first)) || 0
Delta(key) ==
  LET first == NumericScores(SubSeq(sorted, 1, half), key)
      second == NumericScores(SubSeq(sorted, half + 1, Len(sorted)), key)
  IN IF Len(first) = 0 \/ Len(second) = 0 THEN Frac(0, 1)
     ELSE LET d == FracSub(Frac(Sum(second), Len(second)), Frac(Sum(first), Len(first)))
          IN IF d.n = 0 THEN Frac(0, 1) ELSE d

\* keys.map(...).sort((a, b) => (b.delta || 0) - (a.delta || 0))
deltas ==
  LET mapped == [i \in 1..Len(Keys) |-> [key |-> Keys[i], delta |-> Delta(Keys[i])]]
      lt == [j \in 1..Len(Keys), i \in 1..Len(Keys) |->
               FracLess(mapped[i].delta, mapped[j].delta)]
      p == SortIdx(Len(Keys), lt)
  IN [r \in 1..Len(Keys) |-> mapped[p[r]]]

\* insights?.mostImproved: insights is null while there is no record
mostImproved == IF Len(sorted) = 0 THEN Null ELSE deltas[1]

\* sorted.map(h => ({ h, overall: scoreOf(h.feedback, "overall") }))
\*   .filter(s => typeof s.overall === "number")
withOverall ==
  LET mapped == [i \in 1..Len(sorted) |->
                   [h |-> sorted[i], overall |-> scoreOf(sorted[i].feedback, "overall")]]
      IsScored(s) == IsNumber(s.overall)
  IN SelectSeq(mapped, IsScored)

\* faulty variant: .sort((a, b) => a.overall - b.overall)
scoredAscending ==
  LET kept == withOverall
      lt == [j \in 1..Len(kept), i \in 1..Len(kept) |-> kept[j].overall.v < kept[i].overall.v]
      p == SortIdx(Len(kept), lt)
  IN [r \in 1..Len(kept) |-> kept[p[r]]]

\* .sort((a, b) => b.overall - a.overall)
scored ==
  LET kept == withOverall
      lt == [j \in 1..Len(kept), i \in 1..Len(kept) |-> kept[j].overall.v > kept[i].overall.v]
      p == SortIdx(Len(kept), lt)
  IN [r \in 1..Len(kept) |-> kept[p[r]]]

\* insights?.best: scored[0], undefined when nothing is scored; insights
\* is null while there is no record
best ==
  IF Len(sorted) = 0 THEN Null
  ELSE IF Len(scored) = 0 THEN Undef
  ELSE scored[1]

(* --------------------------- series builder --------------------------- *)

\* points.slice(from, i + 1).reduce((a, p) => a + p.y, 0) / win.length
RECURSIVE SumY(_)
SumY(win) == IF win = <<>> THEN Frac(0, 1) ELSE FracAdd(Head(win).y, SumY(Tail(win)))

max(a, b) == IF a >= b THEN a ELSE b

\* faulty variant: a window one point wider, from = Math.max(0, i - window)
movingAvgWide(points, window) ==
  IF window <= 1 THEN points
  ELSE [i \in 1..Len(points) |->
          LET from == max(1, i - window)
              win == SubSeq(points, from, i)
              total == SumY(win)
          IN [points[i] EXCEPT !.y = Frac(total.n, total.d * Len(win))]]

movingAvg(points, window) ==
  IF window <= 1 THEN points
  ELSE [i \in 1..Len(points) |->
          LET from == max(1, i - (window - 1))
              win == SubSeq(points, from, i)
              total == SumY(win)
          IN [points[i] EXCEPT !.y = Frac(total.n, total.d * Len(win))]]

\* d.toISOString() of an Invalid Date throws a RangeError
MakesPoint(it, key) ==
  it.created_at.t # "undef" /\ IsNumber(scoreOf(it.feedback, key))

MkThrows(its, key) ==
  \E i \in 1..Len(its) : MakesPoint(its[i], key) /\ its[i].created_at.t = "baddate"

\* the points of one category, before smoothing: map, filter(Boolean), sort by x
sortedPts(its, key) ==
  LET Keep(it) == MakesPoint(it, key)
      Point(it) == [x |-> it.created_at.at,
                    y |-> Frac(scoreOf(it.feedback, key).v, 1),
                    t |-> it.created_at,
                    id |-> it.id]
      kept == SelectSeq(its, Keep)
      pts == [i \in 1..Len(kept) |-> Point(kept[i])]
      lt == [j \in 1..Len(pts), i \in 1..Len(pts) |-> pts[j].x < pts[i].x]
      p == SortIdx(Len(pts), lt)
  IN [r \in 1..Len(pts) |-> pts[p[r]]]

mk(label, key, color) ==
  [key |-> key, label |-> label, color |-> color,
   points |-> IF smooth THEN movingAvg(sortedPts(filtered, key), 3)
              ELSE sortedPts(filtered, key)]

\* the series in the order basePoints builds them
SeriesKeys == <<"overall", "opening", "content", "delivery", "grammar">>
Labels == <<"Overall", "Opening", "Content", "Delivery", "Grammar">>
Colors == <<"#22d3ee", "#60a5fa", "#34d399", "#f472b6", "#f59e0b">>

Threw == [threw |-> TRUE, series |-> <<>>]

\* faulty variant: return all, the visibility filter left out
basePointsAll ==
  IF \E i \in 1..Len(SeriesKeys) : MkThrows(filtered, SeriesKeys[i]) THEN Threw
  ELSE [threw |-> FALSE,
        series |-> [i \in 1..Len(SeriesKeys) |-> mk(Labels[i], SeriesKeys[i], Colors[i])]]

\* [threw |-> TRUE] when building a series throws, else the visible series
basePoints ==
  IF \E i \in 1..Len(SeriesKeys) : MkThrows(filtered, SeriesKeys[i]) THEN Threw
  ELSE LET all == [i \in 1..Len(SeriesKeys) |-> mk(Labels[i], SeriesKeys[i], Colors[i])]
           Shown(s) == visible[s.key] # FALSE
       IN [threw |-> FALSE, series |-> SelectSeq(all, Shown)]

(* ------------------------------ the chart ----------------------------- *)

RECURSIVE GCD(_, _)
GCD(a, b) == IF b = 0 THEN a ELSE GCD(b, a % b)

\* the same quotient in lowest terms
Reduce(f) ==
  LET g == GCD(IF f.n < 0 THEN -f.n ELSE f.n, f.d)
  IN Frac(f.n \div g, f.d \div g)

FracMul(a, b) == Reduce(Frac(a.n * b.n, a.d * b.d))

\* LineChart: the viewBox is w by h, the plot is padding away from its edges
w == 900
h == 260
padding == 36
yMin == 0
yMax == 100

\* series.flatMap(s => s.points)
RECURSIVE flatPoints(_)
flatPoints(series) ==
  IF series = <<>> THEN <<>> ELSE Head(series).points \o flatPoints(Tail(series))

\* Math.min(...xs), Math.max(...xs) of a chart that has points
minX(pts) == CHOOSE x \in {pts[i].x : i \in 1..Len(pts)} :
               \A i \in 1..Len(pts) : x <= pts[i].x
maxX(pts) == CHOOSE x \in {pts[i].x : i \in 1..Len(pts)} :
               \A i \in 1..Len(pts) : x >= pts[i].x

\* faulty variant: the plot's width taken as w - padding
xScaleWide(x, lo, hi) ==
  LET span == max(1, hi - lo)
  IN Reduce(Frac(padding * span + (x - lo) * (w - padding), span))

\* padding + ((x - minX) / Math.max(1, maxX - minX)) * (w - padding * 2),
\* lo and hi being the chart's minX and maxX
xScale(x, lo, hi) ==
  LET span == max(1, hi - lo)
  IN Reduce(Frac(padding * span + (x - lo) * (w - padding * 2), span))

\* h - padding - ((y - yMin) / Math.max(1, yMax - yMin)) * (h - padding * 2)
yScale(y) ==
  LET span == max(1, yMax - yMin)
  IN Reduce(Frac((h - padding) * span * y.d - (y.n - yMin * y.d) * (h - padding * 2),
                 span * y.d))

\* faulty variant: the distance along x only
hypotX(dx, dy) == FracMul(dx, dx)

\* Math.hypot(dx, dy), kept as its square
hypot2(dx, dy) == Reduce(FracAdd(FracMul(dx, dx), FracMul(dy, dy)))

\* the candidates of handleMouse in the order its two loops meet them
RECURSIVE Candidates(_, _, _, _, _)
Candidates(series, lo, hi, mx, my) ==
  IF series = <<>> THEN <<>>
  ELSE LET s == Head(series)
           One(p) == [label |-> s.label, x |-> p.x, y |-> p.y, t |-> p.t,
                      color |-> s.color, id |-> p.id,
                      dist |-> hypot2(FracSub(xScale(p.x, lo, hi), Frac(mx, 1)),
                                      FracSub(yScale(p.y), Frac(my, 1)))]
       IN [i \in 1..Len(s.points) |-> One(s.points[i])]
            \o Candidates(Tail(series), lo, hi, mx, my)

\* faulty variant: dist <= best.dist, the last of the nearest wins
RECURSIVE ScanLast(_, _, _)
ScanLast(cands, i, nearestYet) ==
  IF i > Len(cands) THEN nearestYet
  ELSE ScanLast(cands, i + 1,
                IF nearestYet = Null \/ ~FracLess(nearestYet.dist, cands[i].dist) THEN cands[i] ELSE nearestYet)

\* if (!best || dist < best.dist) best = ...
RECURSIVE Scan(_, _, _)
Scan(cands, i, nearestYet) ==
  IF i > Len(cands) THEN nearestYet
  ELSE Scan(cands, i + 1,
            IF nearestYet = Null \/ FracLess(cands[i].dist, nearestYet.dist) THEN cands[i] ELSE nearestYet)

\* what handleMouse hands to onHover for the pointer at (mx, my)
nearest(series, mx, my) ==
  LET pts == flatPoints(series)
      lo == IF pts = <<>> THEN 0 ELSE minX(pts)
      hi == IF pts = <<>> THEN 0 ELSE maxX(pts)
      cands == Candidates(series, lo, hi, mx, my)
      nearestYet == Scan(cands, 1, Null)
  IN IF nearestYet = Null THEN Null
     ELSE [label |-> nearestYet.label, x |-> nearestYet.x, y |-> nearestYet.y, t |-> nearestYet.t,
           color |-> nearestYet.color, id |-> nearestYet.id]

\* faulty variant: LineChart without if (all.length === 0) return ...
ChartShownEmpty(built) ==
  /\ ready
  /\ ~built.threw

\* the svg is there when the series are built and have a point
ChartShown(built) ==
  /\ ready
  /\ ~built.threw
  /\ Len(flatPoints(built.series)) # 0

\* onMouseMove over the chart of the series built, the pointer mx right of
\* and my below the svg's corner
handleMouseOn(built, mx, my) ==
  /\ UNCHANGED <<server, now, zone, token, pc, ready, loading, err, items, sorted,
                 range, smooth, visible, download, historyVars, otherVars>>
  /\ ChartShown(built)
  /\ hover' = nearest(built.series, mx, my)

handleMouse(mx, my) == LET built == basePoints IN handleMouseOn(built, mx, my)

\* onMouseLeave
handleLeave ==
  /\ UNCHANGED <<server, now, zone, token, pc, ready, loading, err, items, sorted,
                 range, smooth, visible, download, historyVars, otherVars>>
  /\ ChartShown(basePoints)
  /\ hover' = Null

(* ------------------------------ CSV export ---------------------------- *)

\* the three characters the export looks for; a text is a sequence of
\* lexemes, and every other lexeme holds none of these characters
Comma == ","
Quote == "\""
Newline == "\n"
Special == {Comma, Quote, Newline}

\* String(c)
String(c) ==
  CASE c.t = "num" -> <<ToString(c.v)>>
    [] c.t = "str" -> c.s
    [] c.t = "null" -> <<"null">>
    [] c.t = "undef" -> <<"undefined">>
    [] OTHER -> <<"[object Object]">>

\* new Date(created_at).toISOString(): a RangeError for an invalid date
toISOString(c) == IF c.t = "iso" THEN Return(<<"T" \o ToString(c.at)>>) ELSE Throw

\* it.created_at ? new Date(it.created_at).toISOString() : ""
DateCell(it) ==
  IF it.created_at.t = "undef" THEN Return(<<>>) ELSE toISOString(it.created_at)

\* faulty variant: String(scoreOf(it.feedback, key))
ScoreCellRaw(it, key) == String(scoreOf(it.feedback, key))

\* String(scoreOf(it.feedback, key) ?? "")
ScoreCell(it, key) == String(Coalesce(scoreOf(it.feedback, key), Str(<<>>)))

\* rows[0] of ProgressPage.exportCsv
csvHeader ==
  <<<<"id">>, <<"date">>, <<"opening">>, <<"content">>, <<"delivery">>,
    <<"grammar">>, <<"overall">>>>

\* faulty variant: the score cells in the order of the chart's series
csvRowSeriesOrder(it) ==
  <<<<ToString(it.id)>>, DateCell(it).val>>
    \o [k \in 1..Len(SeriesKeys) |-> ScoreCell(it, SeriesKeys[k])]

\* one r of ProgressPage.exportCsv, after r.map(c => String(c))
csvRow(it) ==
  <<<<ToString(it.id)>>, DateCell(it).val>>
    \o [k \in 1..Len(Keys) |-> ScoreCell(it, Keys[k])]

\* /[",\n]/.test(cell)
NeedsQuotes(cell) == \E i \in 1..Len(cell) : cell[i] \in Special

\* cell.replace(/"/g, '""')
RECURSIVE DoubleQuotes(_)
DoubleQuotes(cell) ==
  IF cell = <<>> THEN <<>>
  ELSE (IF Head(cell) = Quote THEN <<Quote, Quote>> ELSE <<Head(cell)>>)
         \o DoubleQuotes(Tail(cell))

\* faulty variant: `"${cell}"`, the quotes inside left single
quoteCellPlain(cell) ==
  IF NeedsQuotes(cell) THEN <<Quote>> \o cell \o <<Quote>> ELSE cell

\* /[",\n]/.test(cell) ? `"${cell.replace(/"/g,'""')}"` : cell
quoteCell(cell) ==
  IF NeedsQuotes(cell) THEN <<Quote>> \o DoubleQuotes(cell) \o <<Quote>> ELSE cell

\* parts.join(sep)
RECURSIVE join(_, _)
join(parts, sep) ==
  IF parts = <<>> THEN <<>>
  ELSE IF Len(parts) = 1 THEN parts[1]
  ELSE parts[1] \o sep \o join(Tail(parts), sep)

\* rows.map(r => r.map(quote).join(",")).join("\n")
csvText(rows) ==
  join([r \in 1..Len(rows) |->
          join([c \in 1..Len(rows[r]) |-> quoteCell(rows[r][c])], <<Comma>>)],
       <<Newline>>)

\* what a click on Export CSV gives: the file handed to the browser, or
\* nothing when the handler threw
File(name, csv) ==
  [t |-> "file", name |-> name, type |-> "text/csv;charset=utf-8;", csv |-> csv]
Thrown == [t |-> "thrown"]

\* the records the export of each page walks
exportThrows(its) == \E i \in 1..Len(its) : DateCell(its[i]).threw

\* ProgressPage.exportCsv
exportCsv ==
  /\ ready
  /\ download' =
       IF exportThrows(sorted) THEN Thrown
       ELSE File("openspeak_progress.csv",
                 csvText(<<csvHeader>> \o [i \in 1..Len(sorted) |-> csvRow(sorted[i])]))
  /\ UNCHANGED <<hover, historyVars, otherVars>>
  /\ UNCHANGED <<server, now, zone, token, pc, ready, loading, err, items, sorted,
                 range, smooth, visible>>

(* ---------------------------- the history page ------------------------ *)

\* useState of HistoryPage
HistoryPageInit ==
  /\ pc = "mount"
  /\ ready = FALSE
  /\ loading = TRUE
  /\ err = Null
  /\ items = <<>>
  /\ sorted = <<>>
  /\ range = "all"
  /\ smooth = TRUE
  /\ visible = AllVisible
  /\ hover = Null
  /\ download = Null
  /\ route = "/history"
  /\ query = <<>>
  /\ minScore = Null
  /\ sortBy = "date_desc"
  /\ page = 1
  /\ pageSize = 10
  /\ filteredSorted = <<>>
  /\ OtherInit

\* toLowerCase, lexeme by lexeme
toLowerCase(s) ==
  [i \in 1..Len(s) |->
     CASE s[i] = "Hello" -> "hello"
       [] s[i] = "Pace" -> "pace"
       [] OTHER -> s[i]]

\* text.includes(q): q occurs in text as a run of lexemes
includes(text, q) ==
  \E i \in 0..(Len(text) - Len(q)) : \A j \in 1..Len(q) : text[i + j] = q[j]

\* sectionToText: the sections of the model carry no summary, strengths or
\* weaknesses, so that an object gives the dash as null and undefined do
sectionToText(s) == IF s.t = "str" /\ s.s # <<>> THEN s.s ELSE <<"-">>

\* it.feedback?.[key]
SectionOf(it, key) == IF it.feedback.t = "undef" THEN Undef ELSE it.feedback.sec[key]

\* it.feedback?.suggestions ?? []
SuggestionsOf(it) == IF it.feedback.t = "undef" THEN <<>> ELSE it.feedback.suggestions

\* [transcript || "", sectionToText(content), ..., ...suggestions].join(" ").toLowerCase()
hay(it) ==
  toLowerCase(join(<<IF it.transcript.t = "str" THEN it.transcript.s ELSE <<>>,
                     sectionToText(SectionOf(it, "content")),
                     sectionToText(SectionOf(it, "overall")),
                     sectionToText(SectionOf(it, "delivery")),
                     sectionToText(SectionOf(it, "grammar")),
                     sectionToText(SectionOf(it, "opening"))>>
                     \o SuggestionsOf(it),
                   <<" ">>))

\* the callback of items.filter in filteredSorted, for the query, range
\* and minimum score given
HistoryPasses(it, qry, r, m) ==
  LET q == toLowerCase(trim(qry))
      sc == scoreOf(it.feedback, "overall")
      text == hay(it)
  IN /\ HistoryInRange(it, r)
     /\ m.t = "num" => (IsNumber(sc) /\ sc.v >= m.v)
     /\ q = <<>> \/ includes(text, q)

\* -Infinity
NegInfinity == [t |-> "-inf"]

\* new Date(x.created_at || 0).getTime()
DateKey(it) == IF it.created_at.t = "undef" THEN Num(0) ELSE getTime(it.created_at)

\* scoreOf(x.feedback, "overall") ?? -Infinity, as the subtraction takes it
ScoreKey(it) ==
  LET sc == Coalesce(scoreOf(it.feedback, "overall"), NegInfinity)
  IN IF sc.t \in {"num", "-inf"} THEN sc ELSE NaN

KeyLess(a, b) == (a.t = "-inf" /\ b.t = "num") \/ (a.t = "num" /\ b.t = "num" /\ a.v < b.v)

\* list.sort(...): stable where the comparator is consistent (a NaN
\* difference of two -Infinity counts as 0); with a NaN key it is not, and
\* the order is the engine's
historySort(list, by) ==
  LET n == Len(list)
      key == [i \in 1..n |-> IF by \in {"date_desc", "date_asc"}
                             THEN DateKey(list[i]) ELSE ScoreKey(list[i])]
  IN IF \A i \in 1..n : key[i].t # "nan"
     THEN LET lt == [j \in 1..n, i \in 1..n |->
                       IF by \in {"date_desc", "score_desc"}
                       THEN KeyLess(key[i], key[j]) ELSE KeyLess(key[j], key[i])]
              p == SortIdx(n, lt)
          IN {[r \in 1..n |-> list[p[r]]]}
     ELSE {[r \in 1..n |-> list[p[r]]] : p \in Rearrangements(n)}

\* what useMemo [items, query, range, minScore, sortBy] can compute
filteredSortedOutcomes(its, qry, r, m, by) ==
  LET Passes(it) == HistoryPasses(it, qry, r, m)
  IN historySort(SelectSeq(its, Passes), by)

min(a, b) == IF a <= b THEN a ELSE b
clamp(n, a, b) == max(a, min(b, n))

\* faulty variant: Math.floor in place of Math.ceil
totalPagesFloor == max(1, Len(filteredSorted) \div pageSize)

\* Math.max(1, Math.ceil(total / pageSize))
totalPages == max(1, (Len(filteredSorted) + pageSize - 1) \div pageSize)
safePage == clamp(page, 1, totalPages)

\* filteredSorted.slice((safePage - 1) * pageSize, safePage * pageSize)
pageItems ==
  SubSeq(filteredSorted, (safePage - 1) * pageSize + 1,
         min(safePage * pageSize, Len(filteredSorted)))

\* GET /history answers on the history page
HistoryFetchOk ==
  /\ route = "/history"
  /\ pc = "fetching"
  /\ server.ok
  /\ UNCHANGED <<otherVars, server, now, zone, token, ready, sorted, range, smooth, visible,
                 hover, download, route, query, minScore, sortBy, page, pageSize>>
  /\ LET normalized == [i \in 1..Len(server.data) |-> Normalize(server.data[i])] IN
     IF \E i \in 1..Len(normalized) : normalized[i].threw
     THEN /\ err' = Message
          /\ UNCHANGED <<items, filteredSorted>>
     ELSE /\ items' = [i \in 1..Len(normalized) |-> normalized[i].val]
          /\ filteredSorted' \in
               filteredSortedOutcomes([i \in 1..Len(normalized) |-> normalized[i].val],
                                      query, range, minScore, sortBy)
          /\ err' = err
  /\ loading' = FALSE
  /\ pc' = "done"

\* onClick={() => { setPage(1); setRange(r); }}
HistorySetRange(r) ==
  /\ route = "/history"
  /\ ready
  /\ UNCHANGED <<otherVars, server, now, zone, token, pc, ready, loading, err, items, sorted,
                 smooth, visible, hover, download, route, query, minScore, sortBy,
                 pageSize>>
  /\ page' = 1
  /\ range' = r
  /\ filteredSorted' \in filteredSortedOutcomes(items, query, r, minScore, sortBy)

\* onChange={(e) => { setPage(1); setQuery(e.target.value); }}
setQuery(q) ==
  /\ route = "/history"
  /\ ready
  /\ UNCHANGED <<otherVars, server, now, zone, token, pc, ready, loading, err, items, sorted,
                 range, smooth, visible, hover, download, route, minScore, sortBy,
                 pageSize>>
  /\ page' = 1
  /\ query' = q
  /\ filteredSorted' \in filteredSortedOutcomes(items, q, range, minScore, sortBy)

\* onChange={(e)=> { setPage(1); setMinScore(...); }}
setMinScore(m) ==
  /\ route = "/history"
  /\ ready
  /\ UNCHANGED <<otherVars, server, now, zone, token, pc, ready, loading, err, items, sorted,
                 range, smooth, visible, hover, download, route, query, sortBy,
                 pageSize>>
  /\ page' = 1
  /\ minScore' = m
  /\ filteredSorted' \in filteredSortedOutcomes(items, query, range, m, sortBy)

SortOrders == {"date_desc", "date_asc", "score_desc", "score_asc"}

\* onChange={(e)=> setSortBy(e.target.value as any)}
setSortBy(s) ==
  /\ route = "/history"
  /\ ready
  /\ UNCHANGED <<otherVars, server, now, zone, token, pc, ready, loading, err, items, sorted,
                 range, smooth, visible, hover, download, route, query, minScore,
                 page, pageSize>>
  /\ sortBy' = s
  /\ filteredSorted' \in filteredSortedOutcomes(items, query, range, minScore, s)

\* the pagination bar is rendered with the list
ListShown == ~loading /\ err = Null /\ Len(filteredSorted) > 0

PageSizes == {5, 10, 20, 50}

\* onChange={(e)=> { setPage(1); setPageSize(parseInt(e.target.value)); }}
setPageSize(n) ==
  /\ route = "/history"
  /\ ready
  /\ ListShown
  /\ page' = 1
  /\ pageSize' = n
  /\ UNCHANGED <<otherVars, server, now, zone, token, pc, ready, loading, err, items, sorted,
                 range, smooth, visible, hover, download, route, query, minScore,
                 sortBy, filteredSorted>>

\* Prev (-1) and Next (+1): setPage(p => clamp(p + d, 1, totalPages))
setPage(d) ==
  /\ route = "/history"
  /\ ready
  /\ ListShown
  /\ safePage # (IF d < 0 THEN 1 ELSE totalPages)
  /\ page' = clamp(page + d, 1, totalPages)
  /\ UNCHANGED <<otherVars, server, now, zone, token, pc, ready, loading, err, items, sorted,
                 range, smooth, visible, hover, download, route, query, minScore,
                 sortBy, pageSize, filteredSorted>>

\* rows[0] of HistoryPage.exportCSV
historyHeader == csvHeader \o <<<<"has_transcript">>>>

\* it.transcript ? "yes" : "no"
hasTranscript(it) ==
  IF it.transcript.t = "str" /\ it.transcript.s # <<>> THEN <<"yes">> ELSE <<"no">>

\* faulty variant: the last cell is the transcript itself
historyRowTranscript(it) ==
  csvRow(it) \o <<IF it.transcript.t = "str" THEN it.transcript.s ELSE <<>>>>

\* one row of HistoryPage.exportCSV
historyRow(it) == csvRow(it) \o <<hasTranscript(it)>>

\* HistoryPage.exportCSV
exportCSV ==
  /\ route = "/history"
  /\ ready
  /\ download' =
       IF exportThrows(filteredSorted) THEN Thrown
       ELSE File("openspeak_history.csv",
                 csvText(<<historyHeader>>
                           \o [i \in 1..Len(filteredSorted) |-> historyRow(filteredSorted[i])]))
  /\ UNCHANGED <<otherVars, server, now, zone, token, pc, ready, loading, err, items, sorted,
                 range, smooth, visible, hover, route, query, minScore, sortBy, page,
                 pageSize, filteredSorted>>

(* --------------------------- the coaching hint ------------------------ *)

\* sorted.flatMap(h => h.feedback?.suggestions ?? []).filter(Boolean);
\* a feedback without suggestions, or with null, has none
RECURSIVE flatSuggestions(_)
flatSuggestions(its) ==
  IF its = <<>> THEN <<>>
  ELSE LET own == IF Head(its).feedback.t = "undef" THEN <<>>
                  ELSE Head(its).feedback.suggestions
           NotEmpty(s) == s # <<>>
       IN SelectSeq(own, NotEmpty) \o flatSuggestions(Tail(its))

suggestions == flatSuggestions(sorted)

\* faulty variant: "eye-contact" for "eye"
keys2Hyphen ==
  <<<<"pauses">>, <<"pace">>, <<"clarity">>, <<"fillers">>, <<"volume">>,
    <<"structure">>, <<"eye", "-contact">>, <<"confidence">>>>

\* the keywords, each one lexeme of the texts
keys2 ==
  <<<<"pauses">>, <<"pace">>, <<"clarity">>, <<"fillers">>, <<"volume">>,
    <<"structure">>, <<"eye">>, <<"confidence">>>>

\* insights?.topHint: keys2.find(k => text.includes(k)), as `Focus on ${hit}.`;
\* insights is null while there is no record
topHint ==
  IF Len(sorted) = 0 \/ Len(suggestions) = 0 THEN Null
  ELSE LET text == toLowerCase(join(suggestions, <<" ">>))
           hits == {n \in 1..Len(keys2) : includes(text, keys2[n])}
       IN IF hits = {} THEN Null
          ELSE LET hit == keys2[CHOOSE n \in hits : \A m \in hits : n <= m]
               IN Str(<<"Focus on ">> \o hit \o <<".">>)

(* ----------------------------- the dashboard -------------------------- *)

\* useState of Dashboard; its history is kept in items, loadingHistory in
\* loading and historyErr in err
DashboardInit ==
  /\ pc = "mount"
  /\ ready = FALSE
  /\ loading = TRUE
  /\ err = Null
  /\ items = <<>>
  /\ sorted = <<>>
  /\ range = "all"
  /\ smooth = TRUE
  /\ visible = AllVisible
  /\ hover = Null
  /\ download = Null
  /\ route = "/dashboard"
  /\ query = <<>>
  /\ minScore = Null
  /\ sortBy = "date_desc"
  /\ page = 1
  /\ pageSize = 10
  /\ filteredSorted = <<>>
  /\ OtherInit

\* the auth guard of the dashboard: without a token it replaces the route,
\* with one it sets ready, calls fetchMe() and the history effect follows
DashboardGuard ==
  /\ route = "/dashboard"
  /\ pc = "mount"
  /\ IF token
     THEN /\ ready' = TRUE
          /\ me' = "fetching"
          /\ loading' = TRUE
          /\ err' = Null
          /\ pc' = "fetching"
     ELSE /\ pc' = "login"
          /\ UNCHANGED <<ready, me, loading, err>>
  /\ UNCHANGED <<server, now, zone, token, items, sorted, range, smooth, visible,
                 hover, download, historyVars, user, generateVars>>

\* the signed-in user GET /me answers with
Me == [t |-> "me"]

\* GET /me answers: setUser(data || null)
MeOk ==
  /\ route = "/dashboard"
  /\ me = "fetching"
  /\ pc # "login"
  /\ server.me = 200
  /\ user' = Me
  /\ me' = "done"
  /\ UNCHANGED <<server, now, zone, token, pc, ready, loading, err, items, sorted,
                 range, smooth, visible, hover, download, historyVars, generateVars>>

\* GET /me is rejected with status 401: doLogout() removes the token and
\* sets window.location.href to /login
MeUnauthorized ==
  /\ route = "/dashboard"
  /\ me = "fetching"
  /\ pc # "login"
  /\ server.me = 401
  /\ token' = FALSE
  /\ pc' = "login"
  /\ me' = "done"
  /\ UNCHANGED <<server, now, zone, ready, loading, err, items, sorted, user,
                 range, smooth, visible, hover, download, historyVars, generateVars>>

\* GET /me is rejected otherwise: the fallback GET /users/me answers, or
\* is rejected too
MeFail ==
  /\ route = "/dashboard"
  /\ me = "fetching"
  /\ pc # "login"
  /\ server.me \notin {200, 401}
  /\ user' \in {Me, Null}
  /\ me' = "done"
  /\ UNCHANGED <<server, now, zone, token, pc, ready, loading, err, items, sorted,
                 range, smooth, visible, hover, download, historyVars, generateVars>>

\* GET /history answers on the dashboard: setHistory(list || []), the
\* records as the backend sent them
DashboardFetchOk ==
  /\ route = "/dashboard"
  /\ pc = "fetching"
  /\ server.ok
  /\ items' = server.data
  /\ loading' = FALSE
  /\ pc' = "done"
  /\ UNCHANGED <<server, now, zone, token, ready, err, sorted, range, smooth, visible,
                 hover, download, historyVars, otherVars>>

\* GET /history is rejected on the dashboard: setHistoryErr, whatever the status
DashboardFetchFail ==
  /\ route = "/dashboard"
  /\ pc = "fetching"
  /\ ~server.ok
  /\ err' = Message
  /\ loading' = FALSE
  /\ pc' = "done"
  /\ UNCHANGED <<server, now, zone, token, ready, items, sorted, range, smooth, visible,
                 hover, download, historyVars, otherVars>>

\* the dashboard's scoreOf: const fromBlock = fb.scores, the whole block
dashboardScoreOf(fb, key) ==
  IF fb.t = "undef" THEN Null
  ELSE LET sec == fb.sec[key]
           inline == IF CarriesScore(sec) THEN sec.score ELSE Null
           fromBlock == fb.scores
       IN Coalesce(Coalesce(inline, fromBlock), Null)

\* history.map(h => scoreOf(h.feedback, "overall")).filter(typeof n === "number")
dashboardNums(its) ==
  LET scores == [i \in 1..Len(its) |-> dashboardScoreOf(its[i].feedback, "overall")]
      nums == SelectSeq(scores, IsNumber)
  IN [i \in 1..Len(nums) |-> nums[i].v]

\* stats.avgOverall of the dashboard
avgOverall ==
  LET nums == dashboardNums(items) IN
  IF Len(nums) > 0 THEN Tenths(MathRound(Sum(nums) * 10, Len(nums))) ELSE Null

(* --------------------------- the generate page ------------------------ *)

\* most speeches the saved list is let grow to
MaxGenItems == 2

\* a saved speech: its id, its text, the favorite flag and the title (the
\* prompt, tone, length and createdAt it also holds are never changed)
GenItem(id, text, liked, title) == [id |-> id, text |-> text, liked |-> liked, title |-> title]

\* useState of GeneratePage; error is kept in err; localStorage holds the
\* list an earlier visit saved
GenerateInit ==
  /\ pc = "mount"
  /\ ready = FALSE
  /\ loading = FALSE
  /\ err = Null
  /\ items = <<>>
  /\ sorted = <<>>
  /\ range = "all"
  /\ smooth = TRUE
  /\ visible = AllVisible
  /\ hover = Null
  /\ download = Null
  /\ route = "/generate"
  /\ query = <<>>
  /\ minScore = Null
  /\ sortBy = "date_desc"
  /\ page = 1
  /\ pageSize = 10
  /\ filteredSorted = <<>>
  /\ me = "idle"
  /\ user = Null
  /\ request = <<>>

\* the mount effect: without a token it replaces the route, with one it
\* sets ready and reads the saved list
GenerateMount ==
  /\ route = "/generate"
  /\ pc = "mount"
  /\ IF token
     THEN /\ ready' = TRUE
          /\ items' = storage
          /\ pc' = "done"
     ELSE /\ pc' = "login"
          /\ UNCHANGED <<ready, items>>
  /\ UNCHANGED <<server, now, zone, token, loading, err, sorted, range, smooth, visible,
                 hover, download, historyVars, otherVars>>

\* persist(next): setItems(next) and localStorage.setItem(LS_KEY, ...)
persist(next) ==
  /\ items' = next
  /\ storage' = next

\* crypto.randomUUID(): an id no speech of the list has
randomUUID(list) ==
  CHOOSE id \in 1..(Len(list) + 1) : \A i \in 1..Len(list) : list[i].id # id

\* faulty variant: handleGenerate without the test of loading
handleGenerateAnyway ==
  /\ route = "/generate"
  /\ ready
  /\ Len(items) + Len(request) < MaxGenItems
  /\ loading' = TRUE
  /\ err' = Null
  /\ request' = Append(request, [kind |-> "generate", id |-> 0, items |-> items])
  /\ UNCHANGED <<server, now, zone, token, pc, ready, items, sorted, range, smooth, visible,
                 hover, download, historyVars, dashboardVars, storage>>

\* the form is submitted: if (!canSubmit || loading) return; the request
\* is sent, and the handler's closure keeps the items of this render
handleGenerate ==
  /\ route = "/generate"
  /\ ready
  /\ ~loading
  /\ Len(items) < MaxGenItems
  /\ loading' = TRUE
  /\ err' = Null
  /\ request' = Append(request, [kind |-> "generate", id |-> 0, items |-> items])
  /\ UNCHANGED <<server, now, zone, token, pc, ready, items, sorted, range, smooth, visible,
                 hover, download, historyVars, dashboardVars, storage>>

\* a refine button of speech id: if (!it || loading) return
refineWith(id) ==
  /\ route = "/generate"
  /\ ready
  /\ ~loading
  /\ \E i \in 1..Len(items) : items[i].id = id
  /\ loading' = TRUE
  /\ err' = Null
  /\ request' = Append(request, [kind |-> "refine", id |-> id, items |-> items])
  /\ UNCHANGED <<server, now, zone, token, pc, ready, items, sorted, range, smooth, visible,
                 hover, download, historyVars, dashboardVars, storage>>

\* what the handler persists when POST /generate-speech answers with a
\* text: [...items, item], or items.map(x => x.id === id ? updated : x),
\* items being the closure's
Completed(r) ==
  IF r.kind = "generate"
  THEN r.items \o <<GenItem(randomUUID(r.items), "speech", FALSE, "prompt")>>
  ELSE [i \in 1..Len(r.items) |->
          IF r.items[i].id = r.id THEN [r.items[i] EXCEPT !.text = "revision"]
          ELSE r.items[i]]

\* the requests still in flight once the k-th has been answered
Without(q, k) == SubSeq(q, 1, k - 1) \o SubSeq(q, k + 1, Len(q))

\* POST /generate-speech answers with a text
RequestOk ==
  /\ route = "/generate"
  /\ \E k \in 1..Len(request) :
       /\ persist(Completed(request[k]))
       /\ request' = Without(request, k)
  /\ loading' = FALSE
  /\ UNCHANGED <<server, now, zone, token, pc, ready, err, sorted, range, smooth, visible,
                 hover, download, historyVars, dashboardVars>>

\* POST /generate-speech is rejected, or answers without a text
RequestFail ==
  /\ route = "/generate"
  /\ \E k \in 1..Len(request) : request' = Without(request, k)
  /\ err' = Message
  /\ loading' = FALSE
  /\ UNCHANGED <<server, now, zone, token, pc, ready, items, sorted, range, smooth, visible,
                 hover, download, historyVars, dashboardVars, storage>>

\* what a handler of the list leaves alone
GenerateRest ==
  UNCHANGED <<server, now, zone, token, pc, ready, loading, err, sorted, range, smooth,
              visible, hover, download, historyVars, dashboardVars, request>>

\* persist(items.filter((x) => x.id !== id))
handleDelete(id) ==
  /\ route = "/generate"
  /\ ready
  /\ \E i \in 1..Len(items) : items[i].id = id
  /\ LET Others(x) == x.id # id IN persist(SelectSeq(items, Others))
  /\ GenerateRest

\* persist(items.map((x) => (x.id === id ? { ...x, liked: !x.liked } : x)))
toggleLike(id) ==
  /\ route = "/generate"
  /\ ready
  /\ \E i \in 1..Len(items) : items[i].id = id
  /\ persist([i \in 1..Len(items) |->
                IF items[i].id = id THEN [items[i] EXCEPT !.liked = ~items[i].liked]
                ELSE items[i]])
  /\ GenerateRest

\* the title input: persist(items.map((x) => (x.id === it.id ? { ...x, title } : x)))
setTitle(id, title) ==
  /\ route = "/generate"
  /\ ready
  /\ \E i \in 1..Len(items) : items[i].id = id
  /\ persist([i \in 1..Len(items) |->
                IF items[i].id = id THEN [items[i] EXCEPT !.title = title] ELSE items[i]])
  /\ GenerateRest

\* if (confirm("Clear all locally saved speeches?")) persist([])
clearAll ==
  /\ route = "/generate"
  /\ ready
  /\ Len(items) > 0
  /\ persist(<<>>)
  /\ GenerateRest

(* ------------------------ what the backend holds ---------------------- *)

Fb(sec, scores) == [t |-> "fb", sec |-> sec, scores |-> scores, suggestions |-> <<>>]
ScoreMap(m) == [t |-> "map", m |-> m]
Rec(id, created, fb) ==
  [id |-> id, transcript |-> Undef, created_at |-> created, feedback |-> fb]
Body(created, fb) == [created_at |-> created, feedback |-> fb]

Answer(data) == [ok |-> TRUE, data |-> data]
Rejected == [ok |-> FALSE, data |-> <<>>]

\* the page load starts on local day 100 at ten
Clock == 100 * Day + 10

\* every local day lasts 24 hours
Regular == [day |-> 0, len |-> Day]

\* the histories of at most n records over a set of records' contents
InitWith(Bodies, n, Zones) ==
  /\ PageInit
  /\ token \in BOOLEAN
  /\ now = Clock
  /\ zone \in Zones
  /\ \/ server = Rejected
     \/ \E k \in 0..n : \E b \in [1..k -> Bodies] :
          server = Answer([i \in 1..k |-> Rec(i, b[i].created_at, b[i].feedback)])

Prose == Str(<<"word", " ", "word">>)

(* ------------------- SpecScore: the score resolver -------------------- *)

ScoreSections ==
  {Undef, Null, Str(<<>>), Prose, Arr,
   Str(<<"{", "\"score\"", ":", "80", "}">>),
   Str(<<"{", " ", "\"score\"", " ", ":", " ", "null", "}">>),
   Obj(FALSE, Undef), Obj(TRUE, Null), Obj(TRUE, Num(0)), Obj(TRUE, Num(80))}

ScoreBlocks(k) ==
  {Undef} \cup
  {ScoreMap([j \in KeySet |-> IF j = k THEN b ELSE o]) :
     b \in {Undef, Null, Num(0), Num(60)}, o \in {Undef, Num(70)}}

ScoreFeedbacks ==
  {Undef} \cup
  UNION {{Fb([j \in KeySet |-> IF j = k THEN sec ELSE osec], scores) :
            sec \in ScoreSections, osec \in {Prose, Obj(TRUE, Num(90))},
            scores \in ScoreBlocks(k)}
         : k \in KeySet}

ScoreBodies == {Body(Iso(Clock - 1), fb) : fb \in ScoreFeedbacks}

InitScore == InitWith(ScoreBodies, 1, {Regular})
NextLoad == AuthGuard \/ FetchOk \/ FetchFail
SpecScore == InitScore /\ [][NextLoad]_vars

\* what the claim says scoreOf returns
Resolved(fb, c) ==
  IF fb.t = "undef" THEN Null
  ELSE IF fb.sec[c].t = "obj" /\ fb.sec[c].has /\ ~Nullish(fb.sec[c].score)
    THEN fb.sec[c].score
  ELSE IF fb.scores.t = "map" /\ ~Nullish(fb.scores.m[c]) THEN fb.scores.m[c]
  ELSE Null

\* C1: for every feedback and category, scoreOf is the section's inline
\* score when the section is an object carrying a non-null score, else
\* feedback.scores[c] when that is non-null, else null; so the inline score
\* wins over a numeric block score and an absent feedback gives null
C1_ScoreOfPrecedence ==
  \A i \in 1..Len(items) : \A c \in KeySet :
    LET fb == items[i].feedback IN
    /\ scoreOf(fb, c) = Resolved(fb, c)
    /\ fb.t = "undef" => scoreOf(fb, c) = Null
    /\ (fb.t = "fb" /\ CarriesScore(fb.sec[c]) /\ IsNumber(fb.sec[c].score)
          /\ IsNumber(BlockScore(fb, c)))
       => scoreOf(fb, c) = fb.sec[c].score

\* a loaded record whose section carries the inline score 0 beside a
\* different numeric block score, resolved to the inline one
C1_Witness ==
  /\ pc = "done"
  /\ \E i \in 1..Len(items) : \E c \in KeySet :
       LET fb == items[i].feedback IN
       /\ fb.t = "fb" /\ CarriesScore(fb.sec[c])
       /\ fb.sec[c].score = Num(0)
       /\ BlockScore(fb, c) = Num(60)
       /\ scoreOf(fb, c) = Num(0)

(* -------------------- SpecParse: the normalizer ----------------------- *)

\* {"summary":"ok","score":80}, "not json {broken", and other longer ones
SampleStrings ==
  {<<"{", "\"summary\"", ":", "\"ok\"", ",", "\"score\"", ":", "80", "}">>,
   <<"word", " ", "word", " ", "{", "word">>,
   <<" ", "{", "\"score\"", ":", "null", "}", " ">>,
   <<"{", "\"score\"", ":", "80", ",", "}">>,
   <<"{", "\"score\"", ":", "80", ",", "\"score\"", ":", "null", "}">>,
   <<"[", "{", "\"score\"", ":", "80", "}", ",", "80", "80", "]">>,
   <<"{", "\"score\"", ":", "[", "80", "]", "}">>,
   <<"{", "\"score\"", " ", "80", "}">>,
   <<"{", "word", "}">>}

OtherSections ==
  {Str(s) : s \in SampleStrings} \cup {Undef, Null, Arr, Obj(FALSE, Undef), Obj(TRUE, Num(80))}

\* one record, one of its sections the value sec, the others prose
ParseHistory(k, sec) ==
  <<Rec(1, Iso(Clock - 1), Fb([j \in KeySet |-> IF j = k THEN sec ELSE Prose], Undef))>>

\* every string of at most MaxLexemes lexemes as the content section, and
\* the longer samples and the values that are no strings as every section
InitParse ==
  /\ PageInit
  /\ now = Clock
  /\ zone = Regular
  /\ \/ /\ token \in BOOLEAN
        /\ \/ server = Rejected
           \/ server = Answer(<<Rec(1, Iso(Clock - 1), Undef)>>)
           \/ \E k \in KeySet : \E sec \in OtherSections :
                server = Answer(ParseHistory(k, sec))
     \/ /\ token = TRUE
        /\ \E n \in 0..MaxLexemes : \E s \in [1..n -> Lexemes] :
             server = Answer(ParseHistory("content", Str(s)))

SpecParse == InitParse /\ [][NextLoad]_vars

\* the trimmed text starts with { and ends with }, or with [ and ]
LooksLikeJSON(raw) ==
  /\ raw.t = "str"
  /\ LET s == trim(raw.s) IN
     /\ Len(s) > 0
     /\ \/ s[1] = "{" /\ s[Len(s)] = "}"
        \/ s[1] = "[" /\ s[Len(s)] = "]"

\* C2: normalizing never throws (an answered fetch ends with no error and
\* one item per record); a string section that looks like JSON becomes the
\* parsed value when JSON.parse succeeds and stays the original string when
\* it fails; every other section passes through unchanged
C2_NormalizeNeverThrows ==
  (pc = "done" /\ server.ok) =>
    /\ err = Null
    /\ Len(items) = Len(server.data)
    /\ \A i \in 1..Len(items) :
         LET rawfb == server.data[i].feedback
             fb == items[i].feedback
         IN IF rawfb.t = "undef" THEN fb = Undef
            ELSE \A k \in KeySet :
              LET raw == rawfb.sec[k] IN
              IF LooksLikeJSON(raw)
              THEN IF JSONparse(trim(raw.s)).ok
                   THEN fb.sec[k] = JSONparse(trim(raw.s)).val
                   ELSE fb.sec[k] = raw
              ELSE fb.sec[k] = raw

\* a loaded record one of whose sections looked like JSON and did not parse,
\* kept as the original string
C2_Witness ==
  /\ pc = "done" /\ server.ok /\ Len(items) = 1
  /\ server.data[1].feedback.t = "fb"
  /\ \E k \in KeySet :
       LET raw == server.data[1].feedback.sec[k] IN
       /\ LooksLikeJSON(raw)
       /\ ~JSONparse(trim(raw.s)).ok
       /\ items[1].feedback.sec[k] = raw

\* the string {"summary":"ok","score":80} normalized to a section of score 80
C2_WitnessParsed ==
  /\ pc = "done" /\ server.ok /\ Len(items) = 1
  /\ server.data[1].feedback.t = "fb"
  /\ \E k \in KeySet :
       /\ server.data[1].feedback.sec[k] =
            Str(<<"{", "\"summary\"", ":", "\"ok\"", ",", "\"score\"", ":", "80", "}">>)
       /\ items[1].feedback.sec[k] = Obj(TRUE, Num(80))

(* ------------------ SpecRange: the range filter ----------------------- *)

\* every category scored v in the scores block, the sections prose
Block(v) == Fb([k \in KeySet |-> Prose], ScoreMap([k \in KeySet |-> Num(v)]))

\* the overall section carries 0 beside a block score; no other score
InlineZero ==
  Fb([k \in KeySet |-> IF k = "overall" THEN Obj(TRUE, Num(0)) ELSE Prose],
     ScoreMap([k \in KeySet |-> IF k = "overall" THEN Num(60) ELSE Undef]))

RangeDates ==
  {Undef, BadDate, Iso(Clock + 1), Iso(Clock - 7 * Day), Iso(Clock - 7 * Day - 1),
   Iso(Clock - 30 * Day - 1), Iso(Clock - 90 * Day - 1)}

RangeBodies == {Body(c, fb) : c \in RangeDates, fb \in {Undef, Block(70), InlineZero}}

InitRange == InitWith(RangeBodies, MaxRangeItems, {Regular})
NextRange == AuthGuard \/ FetchOk \/ FetchFail \/ \E r \in Ranges : SetRange(r)
SpecRange == InitRange /\ [][NextRange]_vars

Ids(its) == {its[i].id : i \in 1..Len(its)}

\* the records with a numeric resolved score for a category
Scored(its, key) == {i \in 1..Len(its) : IsNumber(scoreOf(its[i].feedback, key))}

RECURSIVE SumScores(_, _, _)
SumScores(its, key, I) ==
  IF I = {} THEN 0
  ELSE LET i == CHOOSE j \in I : TRUE
       IN scoreOf(its[i].feedback, key).v + SumScores(its, key, I \ {i})

\* a is the mean of the numeric scores of its, rounded to one decimal (the
\* nearest tenth, a half rounded up), and null when there is none
IsMeanOf(a, its, key) ==
  LET n == Cardinality(Scored(its, key))
      S == SumScores(its, key, Scored(its, key))
  IN IF n = 0 THEN a = Null
     ELSE /\ a.t = "num"
          /\ 20 * S - n < 2 * a.x10 * n
          /\ 2 * a.x10 * n <= 20 * S + n

\* C3: when a finite range retains no record of a non-empty history, every
\* category average is taken over the whole history; when it retains some,
\* over exactly the retained records
C3_FallbackToAllTime ==
  pc = "done" =>
    \A key \in KeySet :
      /\ (range # "all" /\ Len(filtered) = 0 /\ Len(sorted) > 0)
           => IsMeanOf(getAvg(key), sorted, key)
      /\ Len(filtered) > 0 => IsMeanOf(getAvg(key), filtered, key)

\* range 7 retains nothing of a history whose records are older, and the
\* overall average is a number taken from them
C3_Witness ==
  /\ pc = "done" /\ range = "7"
  /\ Len(sorted) > 0 /\ Len(filtered) = 0
  /\ \E i \in 1..Len(sorted) : sorted[i].created_at = Iso(Clock - 30 * Day - 1)
  /\ getAvg("overall") = Tenths(700)

\* the ids a list of records should hold, each once
HoldsExactly(its, ids) == Ids(its) = ids /\ Len(its) = Cardinality(ids)

\* C5 as stated: a finite window retains exactly the records dated from
\* now - N days to now, on both pages
C5_Original ==
  pc = "done" =>
    IF range = "all"
    THEN HoldsExactly(filtered, Ids(items)) /\ HoldsExactly(historyFiltered, Ids(items))
    ELSE LET cutoff == now - parseInt(range) * Day
             inside == {items[i].id : i \in {j \in 1..Len(items) :
                          /\ items[j].created_at.t = "iso"
                          /\ cutoff <= items[j].created_at.at
                          /\ items[j].created_at.at <= now}}
         IN HoldsExactly(filtered, inside) /\ HoldsExactly(historyFiltered, inside)

\* what the two filters do: a finite window of N days retains the records
\* whose createdAt is a date at or after now - N days, with no upper bound
\* at now, and drops the records without createdAt; a createdAt that is no
\* date is dropped by the progress page and kept by the history page
RangeFilterAsBuilt ==
  pc = "done" =>
    IF range = "all"
    THEN HoldsExactly(filtered, Ids(items)) /\ HoldsExactly(historyFiltered, Ids(items))
    ELSE LET cutoff == now - parseInt(range) * Day
             since == {items[i].id : i \in {j \in 1..Len(items) :
                         /\ items[j].created_at.t = "iso"
                         /\ cutoff <= items[j].created_at.at}}
             nodate == {items[i].id : i \in {j \in 1..Len(items) :
                          items[j].created_at.t = "baddate"}}
         IN /\ HoldsExactly(filtered, since)
            /\ HoldsExactly(historyFiltered, since \cup nodate)

\* window 7 over a record dated exactly seven days ago and one dated after
\* now: both are retained
RangeKeepsFuture ==
  /\ pc = "done" /\ range = "7" /\ Len(items) = 2
  /\ \E i, j \in 1..2 :
       /\ items[i].created_at = Iso(Clock - 7 * Day)
       /\ items[j].created_at = Iso(Clock + 1)
  /\ Len(filtered) = 2

\* window 7 drops the record an hour older than seven days and the
\* record without createdAt
RangeDropsOlder ==
  /\ pc = "done" /\ range = "7" /\ Len(items) = 2
  /\ \E i, j \in 1..2 :
       /\ items[i].created_at = Iso(Clock - 7 * Day - 1)
       /\ items[j].created_at = Undef
  /\ Len(filtered) = 0 /\ Len(historyFiltered) = 0

\* the records of its that should give a point of category key
PointIds(its, key) ==
  {its[i].id : i \in {j \in 1..Len(its) :
     /\ its[j].created_at.t = "iso"
     /\ ~Nullish(scoreOf(its[j].feedback, key))}}

Ascending(points) ==
  \A i, j \in 1..Len(points) : i < j => points[i].x <= points[j].x

\* C9 as stated: every series is built and holds exactly one point per
\* record of the range-filtered set that has a valid timestamp and a
\* non-null resolved score, in ascending timestamp order
C9_SeriesPoints ==
  pc = "done" =>
    /\ ~basePoints.threw
    /\ \A n \in 1..Len(basePoints.series) :
         LET s == basePoints.series[n] IN
         /\ {s.points[i].id : i \in 1..Len(s.points)} = PointIds(filtered, s.key)
         /\ Len(s.points) = Cardinality(PointIds(filtered, s.key))
         /\ Ascending(s.points)

(* ------------------ SpecStats: averages and insights ------------------ *)

\* delivery scored d in the scores block, every other category 70
Flat(d) ==
  Fb([k \in KeySet |-> Prose],
     ScoreMap([k \in KeySet |-> IF k = "delivery" THEN Num(d) ELSE Num(70)]))

\* overall 71 inline beside a block score, delivery 80 in a JSON string,
\* opening 0 in the block, content null in both places, grammar 70
Mixed ==
  Fb([k \in KeySet |->
        CASE k = "overall" -> Obj(TRUE, Num(71))
          [] k = "delivery" -> Str(<<"{", "\"score\"", ":", "80", "}">>)
          [] k = "content" -> Obj(TRUE, Null)
          [] OTHER -> Prose],
     ScoreMap([k \in KeySet |->
        CASE k = "overall" -> Num(70)
          [] k = "delivery" -> Undef
          [] k = "content" -> Null
          [] k = "opening" -> Num(0)
          [] OTHER -> Num(70)]))

StatsFeedbacks == {Undef, Flat(50), Flat(90), Mixed}

\* the answer lists the newest record first: the first is 8 days old, the
\* second 31, the third 91, and each later one a day older
StatsAge(i) == IF i = 1 THEN 8 * Day ELSE IF i = 2 THEN 31 * Day ELSE (88 + i) * Day

InitStats ==
  /\ PageInit
  /\ token \in BOOLEAN
  /\ now = Clock
  /\ zone = Regular
  /\ \/ server = Rejected
     \/ \E k \in 0..MaxStatsItems : \E f \in [1..k -> StatsFeedbacks] :
          server = Answer([i \in 1..k |-> Rec(i, Iso(Clock - StatsAge(i)), f[i])])

SpecStats == InitStats /\ [][NextRange]_vars

\* the effective record set: the records in range, or the whole history
\* when the range holds none
Effective == IF Len(filtered) > 0 THEN filtered ELSE sorted

\* C4: for every category the average is the mean of the numeric resolved
\* scores over the effective set rounded to one decimal, null exactly when
\* the set has no numeric score for it; a record whose score is null adds
\* nothing to the sum nor to the count
C4_CategoryAverage ==
  pc = "done" =>
    \A key \in KeySet :
      /\ IsMeanOf(getAvg(key), Effective, key)
      /\ getAvg(key) = Null <=> Scored(Effective, key) = {}

\* four records in range "all", three scored 70 throughout and one mixed:
\* overall 70, 70, 70, 71 gives 70.3 (70.25 rounded up), content 70, 70, 70
\* and a null gives 70, opening 70, 70, 70, 0 gives 52.5
C4_Witness ==
  /\ pc = "done" /\ range = "all" /\ Len(Effective) = 4
  /\ Cardinality(Scored(Effective, "content")) = 3
  /\ getAvg("overall") = Tenths(703)
  /\ getAvg("content") = Tenths(700)
  /\ getAvg("opening") = Tenths(525)

\* the records of the earlier half: those with fewer than floor(n/2) older
\* records in the loaded history
EarlierHalf ==
  LET n == Len(items)
      Older(i) == {j \in 1..n : items[j].created_at.at < items[i].created_at.at}
  IN {i \in 1..n : Cardinality(Older(i)) < n \div 2}

LaterHalf == (1..Len(items)) \ EarlierHalf

\* mean(later) - mean(earlier) over the numeric scores, 0 when a half has none
HalvesDelta(key) ==
  LET E == EarlierHalf \cap Scored(items, key)
      L == LaterHalf \cap Scored(items, key)
  IN IF E = {} \/ L = {} THEN Frac(0, 1)
     ELSE FracSub(Frac(SumScores(items, key, L), Cardinality(L)),
                  Frac(SumScores(items, key, E), Cardinality(E)))

\* C7: the most improved category's reported delta is mean(later) -
\* mean(earlier) of its numeric scores over the halves of the ascending
\* history split at floor(n/2), 0 when a half has no score; no category
\* has a larger delta
C7_MostImproved ==
  (pc = "done" /\ Len(items) > 0) =>
    LET reported == mostImproved
        claimed == [k \in KeySet |-> HalvesDelta(k)]
    IN /\ reported # Null
       /\ reported.key \in KeySet
       /\ reported.delta.d > 0
       /\ FracEq(reported.delta, claimed[reported.key])
       /\ \A k \in KeySet : ~FracLess(reported.delta, claimed[k])

\* delivery 50, 50, 90, 90 in ascending order, every other category flat at
\* 70: delivery is the most improved, with +40
C7_Witness ==
  /\ pc = "done" /\ Len(sorted) = 4
  /\ \A i \in 1..4 :
       sorted[i].feedback = (IF i <= 2 THEN Flat(50) ELSE Flat(90))
  /\ mostImproved.key = "delivery"
  /\ FracEq(mostImproved.delta, Frac(40, 1))

\* a history of one record: the earlier half is empty and every delta is 0
C7_WitnessEmptyHalf ==
  /\ pc = "done" /\ Len(sorted) = 1 /\ sorted[1].feedback = Flat(90)
  /\ mostImproved.delta = Frac(0, 1)

(* ------------------------- SpecStreak: the streak --------------------- *)

\* no timestamp, one that is no date, today (twice), yesterday, two and
\* three days ago
StreakDates ==
  {Undef, BadDate, Iso(Clock - 1), Iso(Clock - 9), Iso(Clock - Day),
   Iso(Clock - 2 * Day), Iso(Clock - 3 * Day)}

StreakBodies == {Body(c, Undef) : c \in StreakDates}

\* local time zones: no clock change, or yesterday lasted 25 hours (clocks
\* set back) or 23 hours (clocks set forward)
StreakZones == {Regular, [day |-> 99, len |-> 25], [day |-> 99, len |-> 23]}

InitStreak == InitWith(StreakBodies, MaxStreakItems, StreakZones)
SpecStreak == InitStreak /\ [][NextRange]_vars

\* the local calendar days that hold a record of the loaded history
RecordDays ==
  {DayOf(items[i].created_at.at) :
     i \in {j \in 1..Len(items) : items[j].created_at.t = "iso"}}

\* the largest k with a record on each of today, today-1, ..., today-(k-1)
ConsecutiveDays ==
  CHOOSE k \in 0..Len(items) :
    /\ \A j \in 0..(k - 1) : (DayOf(now) - j) \in RecordDays
    /\ (DayOf(now) - k) \notin RecordDays \/ k = Len(items)

\* C6: the streak is the number of consecutive local calendar days, ending
\* today, that each hold a record of the whole history, whatever the range:
\* 0 with no record today, 2 for records today, yesterday and three days ago
C6_Streak ==
  pc = "done" =>
    /\ streak = ConsecutiveDays
    /\ DayOf(now) \notin RecordDays => streak = 0
    /\ ({DayOf(now), DayOf(now) - 1, DayOf(now) - 3} \subseteq RecordDays
          /\ (DayOf(now) - 2) \notin RecordDays)
       => streak = 2

\* where no clock changes, the streak is that number of days
C6_StreakRegularZone == zone = Regular => C6_Streak

\* records today, yesterday and three days ago in a zone without a clock
\* change: the streak is 2
C6_WitnessRegular ==
  /\ pc = "done" /\ zone = Regular /\ range = "7"
  /\ RecordDays = {DayOf(now), DayOf(now) - 1, DayOf(now) - 3}
  /\ streak = 2

(* ----------------------- SpecSmooth: smoothing ------------------------ *)

SmoothFeedbacks == {Mixed, Block(60), Block(70), Block(80), Block(90)}

\* the answer lists the newest record first, the records a week apart
SmoothAge(i) == 7 * i * Day

InitSmooth ==
  /\ PageInit
  /\ token \in BOOLEAN
  /\ now = Clock
  /\ zone = Regular
  /\ \/ server = Rejected
     \/ \E k \in 0..MaxSmoothItems : \E f \in [1..k -> SmoothFeedbacks] :
          server = Answer([i \in 1..k |-> Rec(i, Iso(Clock - SmoothAge(i)), f[i])])

NextSmooth == NextLoad \/ ToggleSmooth
SpecSmooth == InitSmooth /\ [][NextSmooth]_vars

\* the sum of the unsmoothed scores of the points lo..hi of a series
RECURSIVE TrailingSum(_, _, _)
TrailingSum(pts, lo, hi) ==
  IF lo > hi THEN 0 ELSE pts[hi].y.n + TrailingSum(pts, lo, hi - 1)

\* C8: with smoothing on, the y of point i of a series is the mean of the
\* unsmoothed y of the points max(first, i-2)..i of that series; with
\* smoothing off it is the record's resolved score
C8_MovingAverage ==
  pc = "done" =>
    LET built == basePoints IN
    ~built.threw =>
    \A n \in 1..Len(built.series) :
      LET s == built.series[n]
          raw == sortedPts(filtered, s.key)
      IN /\ Len(s.points) = Len(raw)
         /\ \A i \in 1..Len(raw) :
              LET lo == IF i > 2 THEN i - 2 ELSE 1 IN
              /\ s.points[i].id = raw[i].id
              /\ raw[i].y = Frac(scoreOf(items[raw[i].id].feedback, s.key).v, 1)
              /\ smooth => FracEq(s.points[i].y, Frac(TrailingSum(raw, lo, i), i - lo + 1))
              /\ ~smooth => s.points[i].y = raw[i].y

\* overall scores 60, 70, 80, 90 in ascending order, smoothed to
\* 60, 65, 70, 80
C8_Witness ==
  /\ pc = "done" /\ smooth /\ Len(filtered) = 4
  /\ LET s == basePoints.series[1]
         raw == sortedPts(filtered, "overall")
     IN /\ s.key = "overall"
        /\ [i \in 1..Len(raw) |-> raw[i].y.n] = <<60, 70, 80, 90>>
        /\ Len(s.points) = 4
        /\ FracEq(s.points[1].y, Frac(60, 1))
        /\ FracEq(s.points[2].y, Frac(65, 1))
        /\ FracEq(s.points[3].y, Frac(70, 1))
        /\ FracEq(s.points[4].y, Frac(80, 1))

\* the same scores with smoothing switched off
C8_WitnessRaw ==
  /\ pc = "done" /\ ~smooth /\ Len(filtered) = 4
  /\ [i \in 1..Len(basePoints.series[1].points) |-> basePoints.series[1].points[i].y] =
       <<Frac(60, 1), Frac(70, 1), Frac(80, 1), Frac(90, 1)>>

(* --------------------------- Spec: the page --------------------------- *)

\* a recent scored record, an old one with mixed scores, and scored records
\* with no timestamp and with one that is no date
PageBodies ==
  {Body(Iso(Clock - Day), Block(70)), Body(Iso(Clock - 40 * Day), Mixed),
   Body(Undef, Block(70)), Body(BadDate, Block(70))}

Init == InitWith(PageBodies, MaxItems, {Regular})

Next ==
  \/ AuthGuard
  \/ FetchOk
  \/ FetchFail
  \/ \E r \in Ranges : SetRange(r)
  \/ ToggleSmooth
  \/ \E k \in KeySet : onToggle(k)

Spec == Init /\ [][Next]_vars

\* the categories marked visible, in the order overall, opening, content,
\* delivery, grammar
VisibleKeys ==
  LET Marked(k) == visible[k] IN SelectSeq(SeriesKeys, Marked)

\* C10: all five categories start visible, a step that changes the marks
\* flips exactly one category, and whenever the series are built the series
\* handed to the chart are those of the categories marked visible, each
\* once, in the order overall, opening, content, delivery, grammar
C10_VisibleSeries ==
  /\ [](pc = "mount" => visible = AllVisible)
  /\ [](LET built == basePoints IN
        ~built.threw =>
          [i \in 1..Len(built.series) |-> built.series[i].key] = VisibleKeys)
  /\ [][visible' # visible =>
          \E k \in KeySet : visible' = [visible EXCEPT ![k] = ~visible[k]]]_vars

\* after hiding opening and delivery, and hiding and showing grammar again,
\* the chart gets overall, content, grammar
C10_Witness ==
  /\ pc = "done" /\ Len(filtered) > 0
  /\ visible = [AllVisible EXCEPT !["opening"] = FALSE, !["delivery"] = FALSE]
  /\ ~basePoints.threw
  /\ [i \in 1..Len(basePoints.series) |-> basePoints.series[i].key] =
       <<"overall", "content", "grammar">>

(* --------------------------- SpecHover: hover ------------------------- *)

\* overall 100, every other category 50
Peak ==
  Fb([k \in KeySet |-> Prose],
     ScoreMap([k \in KeySet |-> IF k = "overall" THEN Num(100) ELSE Num(50)]))

HoverFeedbacks == {Block(50), Peak}

\* pointer offsets: the columns and rows where points of these histories
\* are drawn, and the column half way between the first and the last
PointerXs == {36, 450, 864}
PointerYs == {36, 83, 130}

\* the answer lists the newest record first, the records an hour apart
InitHover ==
  /\ PageInit
  /\ token \in BOOLEAN
  /\ now = Clock
  /\ zone = Regular
  /\ \/ server = Rejected
     \/ \E k \in 0..MaxHoverItems : \E f \in [1..k -> HoverFeedbacks] :
          server = Answer([i \in 1..k |-> Rec(i, Iso(Clock - i), f[i])])

\* the legend entries that get clicked
HoverToggles == {"overall", "opening"}

NextHover ==
  \/ NextLoad
  \/ ToggleSmooth
  \/ \E k \in HoverToggles : onToggle(k)
  \/ \E mx \in PointerXs, my \in PointerYs : handleMouse(mx, my)
  \/ handleLeave

SpecHover == InitHover /\ [][NextHover]_vars

\* the places of the points handed to the chart: series n, point i
Places(series) ==
  UNION {{<<n, i>> : i \in 1..Len(series[n].points)} : n \in 1..Len(series)}

\* place a comes before place b in iteration order
Before(a, b) == a[1] < b[1] \/ (a[1] = b[1] /\ a[2] < b[2])

\* the squared distance on screen from the point at a place to the pointer
ScreenDist(series, pl, mx, my) ==
  LET p == series[pl[1]].points[pl[2]]
      dx == FracSub(xScale(p.x, minX(flatPoints(series)), maxX(flatPoints(series))),
                    Frac(mx, 1))
      dy == FracSub(yScale(p.y), Frac(my, 1))
  IN FracAdd(FracMul(dx, dx), FracMul(dy, dy))

\* what hover resolution reports for the point at a place
Reported(series, pl) ==
  LET s == series[pl[1]]
      p == s.points[pl[2]]
  IN [label |-> s.label, x |-> p.x, y |-> p.y, t |-> p.t, color |-> s.color, id |-> p.id]

\* C11: on every pointer move over the chart the reported point is at the
\* least distance on screen from the pointer among all points of all visible
\* series, and every point before it in iteration order is strictly farther;
\* for series without points the resolution is null
C11_NearestPoint ==
  /\ [](~basePoints.threw =>
          LET series == basePoints.series IN
          Len(flatPoints(series)) = 0 =>
            \A mx \in PointerXs, my \in PointerYs : nearest(series, mx, my) = Null)
  /\ [][hover' # hover =>
          LET built == basePoints
              series == built.series
          IN \A mx \in PointerXs, my \in PointerYs :
            handleMouseOn(built, mx, my) =>
              LET places == Places(series)
                  dist == [pl \in places |-> ScreenDist(series, pl, mx, my)]
              IN \E pl \in places :
                   /\ hover' = Reported(series, pl)
                   /\ \A other \in places :
                        /\ ~FracLess(dist[other], dist[pl])
                        /\ Before(other, pl) => FracLess(dist[pl], dist[other])]_vars

\* two points of the overall series at the same height, the pointer half
\* way between them and nearer to them than to any other point: the first
\* of the two is reported
C11_Witness ==
  /\ pc = "done" /\ ~smooth /\ Len(filtered) = 2
  /\ visible = AllVisible /\ hover # Null
  /\ \A i \in 1..2 : filtered[i].feedback = Block(50)
  /\ hover = Reported(basePoints.series, <<1, 1>>)
  /\ hover.label = "Overall" /\ hover.id = 2

\* the point at a place is drawn exactly at (mx, my)
DrawnAt(series, pl, mx, my) ==
  LET p == series[pl[1]].points[pl[2]]
      pts == flatPoints(series)
  IN /\ xScale(p.x, minX(pts), maxX(pts)) = Frac(mx, 1)
     /\ yScale(p.y) = Frac(my, 1)

\* C12 as stated: a pointer move exactly onto the place where a point of a
\* visible series is drawn reports that point with its series, for every
\* point of every visible series
C12_Original ==
  [][hover' # hover =>
       LET built == basePoints
           series == built.series
       IN \A mx \in PointerXs, my \in PointerYs :
            handleMouseOn(built, mx, my) =>
              \A pl \in Places(series) :
                DrawnAt(series, pl, mx, my) => hover' = Reported(series, pl)]_vars

\* C12: a pointer move exactly onto the place where points of visible
\* series are drawn reports a point drawn there, at distance zero: the first
\* of them in iteration order, with its own series and category
C12_ExactHit ==
  [][hover' # hover =>
       LET built == basePoints
           series == built.series
       IN \A mx \in PointerXs, my \in PointerYs :
            handleMouseOn(built, mx, my) =>
              LET places == Places(series)
                  there == {pl \in places : DrawnAt(series, pl, mx, my)}
              IN there # {} =>
                   \E pl \in there :
                     /\ hover' = Reported(series, pl)
                     /\ \A other \in there : other = pl \/ Before(pl, other)]_vars

\* the points of a record scored 50 throughout are drawn on one another in
\* every series: the overall one is reported, the opening one lies under it
C12_Witness ==
  /\ pc = "done" /\ visible = AllVisible /\ hover # Null
  /\ LET series == basePoints.series IN
     /\ hover = Reported(series, <<1, 1>>)
     /\ hover.label = "Overall"
     /\ \E mx \in PointerXs, my \in PointerYs :
          /\ DrawnAt(series, <<1, 1>>, mx, my)
          /\ DrawnAt(series, <<2, 1>>, mx, my)
          /\ nearest(series, mx, my) = hover

\* a point drawn apart from every other is reported when the pointer is on it
C12_WitnessAlone ==
  /\ pc = "done" /\ visible = AllVisible /\ hover # Null
  /\ LET series == basePoints.series IN
     /\ hover = Reported(series, <<1, 1>>)
     /\ \E mx \in PointerXs, my \in PointerYs :
          /\ DrawnAt(series, <<1, 1>>, mx, my)
          /\ \A pl \in Places(series) \ {<<1, 1>>} : ~DrawnAt(series, pl, mx, my)

(* ===================== CSV export, on both pages ====================== *)

MaxExportItems == 2

\* the length of a history that takes more than one page of five
LongHistoryItems == 6

\* a transcript with a comma in it
HelloWorld == Str(<<"Hello", ",", " ", "world">>)

\* block scores: opening 0, content null, the others 70
ZeroAndNull ==
  Fb([k \in KeySet |-> Prose],
     ScoreMap([k \in KeySet |->
                 IF k = "opening" THEN Num(0) ELSE IF k = "content" THEN Null ELSE Num(70)]))

\* scores the backend sent as text, inside the sections: 8,5 and say "hi"
\* and two lines; the block gives 90 for grammar and overall
TextScores ==
  Fb([k \in KeySet |->
        CASE k = "opening" -> Obj(TRUE, Str(<<"8", ",", "5">>))
          [] k = "content" -> Obj(TRUE, Str(<<"say ", "\"", "hi", "\"">>))
          [] k = "delivery" -> Obj(TRUE, Str(<<"a", "\n", "b">>))
          [] OTHER -> Prose],
     ScoreMap([k \in KeySet |-> IF k \in {"grammar", "overall"} THEN Num(90) ELSE Undef]))

ExportBodies ==
  { [created_at |-> Iso(Clock - Day), feedback |-> ZeroAndNull, transcript |-> Undef],
    [created_at |-> Undef, feedback |-> Undef, transcript |-> HelloWorld],
    [created_at |-> Iso(Clock - 40 * Day), feedback |-> TextScores, transcript |-> HelloWorld],
    [created_at |-> BadDate, feedback |-> Block(70), transcript |-> Undef] }

\* one record a day, scored 65, 70, ... throughout
LongHistory ==
  Answer([i \in 1..LongHistoryItems |->
            [id |-> i, transcript |-> Undef, created_at |-> Iso(Clock - i * Day),
             feedback |-> Block(60 + 5 * i)]])

InitExport ==
  /\ PageInit \/ HistoryPageInit
  /\ token \in BOOLEAN
  /\ now = Clock
  /\ zone = Regular
  /\ \/ server = Rejected
     \/ server = LongHistory
     \/ \E k \in 0..MaxExportItems : \E b \in [1..k -> ExportBodies] :
          server = Answer([i \in 1..k |->
                             [id |-> i, transcript |-> b[i].transcript,
                              created_at |-> b[i].created_at, feedback |-> b[i].feedback]])

ExportRanges == {"7", "all"}
ExportQueries == {<<>>, <<"Hello">>}
ExportMinScores == {Null, Num(80)}
ExportSortOrders == {"date_desc", "score_asc"}
ExportPageSizes == {5, 10}

NextExport ==
  \/ AuthGuard
  \/ FetchFail
  \/ route = "/progress" /\ FetchOk
  \/ route = "/progress" /\ \E r \in ExportRanges : SetRange(r)
  \/ route = "/progress" /\ ToggleSmooth
  \/ route = "/progress" /\ onToggle("overall")
  \/ route = "/progress" /\ exportCsv
  \/ HistoryFetchOk
  \/ \E r \in ExportRanges : HistorySetRange(r)
  \/ \E q \in ExportQueries : setQuery(q)
  \/ \E m \in ExportMinScores : setMinScore(m)
  \/ \E s \in ExportSortOrders : setSortBy(s)
  \/ \E n \in ExportPageSizes : setPageSize(n)
  \/ \E d \in {-1, 1} : setPage(d)
  \/ exportCSV

SpecExport == InitExport /\ [][NextExport]_vars

\* RFC 4180: a field that opens with a quote runs to its closing quote,
\* two quotes inside it standing for one; fields end at a comma and rows
\* at a line break, outside quotes.
\* where the piece that starts at i ends: the first sep outside quotes
RECURSIVE SepEnd(_, _, _, _)
SepEnd(text, i, quoted, sep) ==
  IF i > Len(text) THEN i
  ELSE IF text[i] = Quote THEN SepEnd(text, i + 1, ~quoted, sep)
  ELSE IF text[i] = sep /\ ~quoted THEN i
  ELSE SepEnd(text, i + 1, quoted, sep)

RECURSIVE Pieces(_, _, _)
Pieces(text, i, sep) ==
  LET e == SepEnd(text, i, FALSE, sep)
  IN <<SubSeq(text, i, e - 1)>> \o (IF e > Len(text) THEN <<>> ELSE Pieces(text, e + 1, sep))

RECURSIVE Undouble(_)
Undouble(s) ==
  IF s = <<>> THEN <<>>
  ELSE IF Len(s) >= 2 /\ s[1] = Quote /\ s[2] = Quote
  THEN <<Quote>> \o Undouble(SubSeq(s, 3, Len(s)))
  ELSE <<s[1]>> \o Undouble(Tail(s))

\* the text a written field stands for
Unquote(raw) ==
  IF Len(raw) >= 2 /\ raw[1] = Quote /\ raw[Len(raw)] = Quote
  THEN Undouble(SubSeq(raw, 2, Len(raw) - 1))
  ELSE raw

\* the fields of a text as written, row by row
RawCellsOf(text) ==
  LET rows == Pieces(text, 1, Newline)
  IN [r \in 1..Len(rows) |-> Pieces(rows[r], 1, Comma)]

\* the cells a text stands for
CellsOf(text) ==
  LET rows == RawCellsOf(text)
  IN [r \in 1..Len(rows) |-> [c \in 1..Len(rows[r]) |-> Unquote(rows[r][c])]]

\* a click on Export CSV that handed a file to the browser
Exported ==
  /\ download'.t = "file"
  /\ UNCHANGED <<pc, items, sorted, range, smooth, visible, historyVars>>
  /\ exportCsv \/ exportCSV

\* the records that click walked
ExportedRecords == IF route = "/progress" THEN sorted ELSE filteredSorted

SevenColumns ==
  <<<<"id">>, <<"date">>, <<"opening">>, <<"content">>, <<"delivery">>,
    <<"grammar">>, <<"overall">>>>

\* the text of a resolved score, nothing for null
ScoreText(v) ==
  CASE v.t = "null" -> <<>>
    [] v.t = "num" -> <<ToString(v.v)>>
    [] v.t = "str" -> v.s

ScoreCellsResolved(cells, its) ==
  \A r \in 1..Len(its) : \A k \in 1..5 :
    /\ r + 1 <= Len(cells)
    /\ Len(cells[r + 1]) >= 7
    /\ cells[r + 1][2 + k] = ScoreText(scoreOf(its[r].feedback, SevenColumns[2 + k][1]))

\* C13 as stated: every export has the seven-column header as its first
\* row, every data row has exactly seven cells in that order, and the five
\* score cells are the resolved scores of the record
C13_Original ==
  [][Exported =>
       \A cells \in {CellsOf(download'.csv)} :
         /\ cells[1] = SevenColumns
         /\ \A r \in 2..Len(cells) : Len(cells[r]) = 7
         /\ ScoreCellsResolved(cells, ExportedRecords)]_vars

\* C13: the first row of every export is the header id, date, opening,
\* content, delivery, grammar, overall, followed on the history page by an
\* eighth column has_transcript; every data row has exactly one cell per
\* header column, the five score cells being the resolved scores of the
\* record and the eighth cell of the history page yes or no
C13_Header ==
  [][Exported =>
       \A cells \in {CellsOf(download'.csv)} :
         LET header == IF route = "/progress" THEN SevenColumns
                       ELSE Append(SevenColumns, <<"has_transcript">>)
         IN /\ cells[1] = header
            /\ \A r \in 2..Len(cells) : Len(cells[r]) = Len(header)
            /\ ScoreCellsResolved(cells, ExportedRecords)
            /\ route = "/history" =>
                 \A r \in 2..Len(cells) : cells[r][8] \in {<<"yes">>, <<"no">>}]_vars

\* a file of each page with two data rows, text scores among them
C13_Witness ==
  /\ download.t = "file"
  /\ route = "/history"
  /\ Len(filteredSorted) = 2
  /\ \E i \in 1..2 : filteredSorted[i].feedback = TextScores
  /\ CellsOf(download.csv)[1][8] = <<"has_transcript">>
  /\ Len(CellsOf(download.csv)) = 3

C13_WitnessProgress ==
  /\ download.t = "file"
  /\ route = "/progress"
  /\ Len(sorted) = 2
  /\ \E i \in 1..2 : sorted[i].feedback = ZeroAndNull
  /\ Len(CellsOf(download.csv)) = 3

\* C14: in every exported row a category whose resolved score is null is
\* written as the empty string, a resolved score of 0 as 0, and the date
\* cell of a record without created_at is empty
C14_EmptyCells ==
  [][Exported =>
       \A cells \in {CellsOf(download'.csv)} :
         \A r \in 1..Len(ExportedRecords) :
           LET it == ExportedRecords[r] IN
           /\ it.created_at.t = "undef" => cells[r + 1][2] = <<>>
           /\ \A k \in 1..5 :
                LET v == scoreOf(it.feedback, SevenColumns[2 + k][1]) IN
                /\ v = Null => cells[r + 1][2 + k] = <<>>
                /\ v = Num(0) => cells[r + 1][2 + k] = <<"0">>]_vars

\* a file of the progress page with a row that has a 0 and an empty score
\* cell, and a row without a date
C14_Witness ==
  /\ download.t = "file"
  /\ route = "/progress"
  /\ Len(sorted) = 2
  /\ \E r \in 1..2 :
       /\ scoreOf(sorted[r].feedback, "opening") = Num(0)
       /\ scoreOf(sorted[r].feedback, "content") = Null
       /\ CellsOf(download.csv)[r + 1][3] = <<"0">>
       /\ CellsOf(download.csv)[r + 1][4] = <<>>
  /\ \E r \in 1..2 :
       /\ sorted[r].created_at = Undef
       /\ CellsOf(download.csv)[r + 1][2] = <<>>

\* the same on the history page
C14_WitnessHistory ==
  /\ download.t = "file"
  /\ route = "/history"
  /\ \E r \in 2..Len(CellsOf(download.csv)) :
       /\ CellsOf(download.csv)[r][3] = <<"0">>
       /\ CellsOf(download.csv)[r][4] = <<>>
  /\ \E r \in 2..Len(CellsOf(download.csv)) : CellsOf(download.csv)[r][2] = <<>>

\* the rows of cells a click on Export CSV builds before it quotes them
OriginalRows ==
  IF route = "/progress"
  THEN <<csvHeader>> \o [i \in 1..Len(sorted) |-> csvRow(sorted[i])]
  ELSE <<historyHeader>> \o [i \in 1..Len(filteredSorted) |-> historyRow(filteredSorted[i])]

HasSpecial(cell) == \E i \in 1..Len(cell) : cell[i] \in {",", "\"", "\n"}
QuotesIn(cell) == Cardinality({i \in 1..Len(cell) : cell[i] = "\""})

\* C15: every cell that contains a comma, a double quote or a newline is
\* written wrapped in double quotes with each double quote inside doubled,
\* every other cell is written verbatim, and splitting the output by the
\* RFC 4180 rules gives back the original cells of every row
C15_Quoting ==
  [][Exported =>
       \A raw \in {RawCellsOf(download'.csv)} : \A rows \in {OriginalRows} :
         /\ Len(raw) = Len(rows)
         /\ \A r \in 1..Len(rows) :
              /\ Len(raw[r]) = Len(rows[r])
              /\ \A c \in 1..Len(rows[r]) :
                   LET cell == rows[r][c]
                       written == raw[r][c]
                   IN /\ Unquote(written) = cell
                      /\ ~HasSpecial(cell) => written = cell
                      /\ HasSpecial(cell) =>
                           /\ written[1] = "\""
                           /\ written[Len(written)] = "\""
                           /\ Len(written) = Len(cell) + QuotesIn(cell) + 2]_vars

\* a file with a cell of each kind: 8,5 and say "hi" and two lines, quoted
C15_Witness ==
  /\ download.t = "file"
  /\ \E r \in 2..Len(RawCellsOf(download.csv)) :
       LET row == RawCellsOf(download.csv)[r] IN
       /\ row[3] = <<"\"", "8", ",", "5", "\"">>
       /\ row[4] = <<"\"", "say ", "\"", "\"", "hi", "\"", "\"", "\"">>
       /\ row[5] = <<"\"", "a", "\n", "b", "\"">>
       /\ row[6] = <<"90">>

\* an export of two records, one of them with the transcript Hello, world
TwoWithTranscript ==
  /\ Exported
  /\ Len(ExportedRecords) = 2
  /\ \E i \in 1..2 : ExportedRecords[i].transcript = HelloWorld

\* C16 as stated: the export of two records, one with the transcript
\* Hello, world, has that transcript as a quoted field in the output
C16_Original ==
  [][TwoWithTranscript =>
       \E raw \in {RawCellsOf(download'.csv)} :
         \E r \in 1..Len(raw) : \E c \in 1..Len(raw[r]) :
           raw[r][c] = <<"\"", "Hello", ",", " ", "world", "\"">>]_vars

\* C16: the export of two records, one with the transcript Hello, world,
\* writes no transcript: no field of the output holds any of its text, the
\* progress page's rows end at the overall score, and the history page's
\* rows end with yes for a record that has a transcript and no for one
\* that has none
C16_TranscriptNotExported ==
  [][TwoWithTranscript =>
       \A cells \in {CellsOf(download'.csv)} :
         /\ \A i \in 1..Len(download'.csv) : download'.csv[i] # "Hello"
         /\ route = "/progress" => \A r \in 1..3 : Len(cells[r]) = 7
         /\ route = "/history" =>
              \A r \in 1..2 :
                /\ Len(cells[r + 1]) = 8
                /\ cells[r + 1][8] =
                     (IF ExportedRecords[r].transcript = HelloWorld
                      THEN <<"yes">> ELSE <<"no">>)]_vars

\* the history page's file for two records, one with and one without a
\* transcript
C16_Witness ==
  /\ download.t = "file"
  /\ route = "/history"
  /\ Len(filteredSorted) = 2
  /\ \E i \in 1..2 : filteredSorted[i].transcript = HelloWorld
  /\ \E i \in 1..2 : filteredSorted[i].transcript = Undef
  /\ Len(CellsOf(download.csv)) = 3
  /\ \E r \in 2..3 : CellsOf(download.csv)[r][8] = <<"yes">>
  /\ \E r \in 2..3 : CellsOf(download.csv)[r][8] = <<"no">>

\* the progress page's file for two such records
C16_WitnessProgress ==
  /\ download.t = "file"
  /\ route = "/progress"
  /\ Len(sorted) = 2
  /\ \E i \in 1..2 : sorted[i].transcript = HelloWorld
  /\ Len(CellsOf(download.csv)) = 3

\* a click on Export CSV, whatever it gave
Clicked ==
  /\ download' # Null
  /\ UNCHANGED <<pc, items, sorted, range, smooth, visible, historyVars>>
  /\ exportCsv \/ exportCSV

\* the time a record is ordered by: its created_at, 0 without one
TimeOf(it) == IF it.created_at.t = "iso" THEN it.created_at.at ELSE 0

\* the file has the header and then one row per record of its, in order
RowPerRecord(file, its) ==
  /\ file.t = "file"
  /\ \A cells \in {CellsOf(file.csv)} :
       /\ Len(cells) = Len(its) + 1
       /\ cells[1][1] = <<"id">>
       /\ \A r \in 1..Len(its) : cells[r + 1][1] = <<ToString(its[r].id)>>

\* what each page is to export: the whole history in ascending time order
\* on the progress page, the filtered and sorted list on the history page
ExportsCallersList ==
  IF route = "/progress"
  THEN /\ RowPerRecord(download', sorted)
       /\ Len(sorted) = Len(items)
       /\ Ids(sorted) = Ids(items)
       /\ \A r, s \in 1..Len(sorted) : r < s => TimeOf(sorted[r]) <= TimeOf(sorted[s])
  ELSE /\ RowPerRecord(download', filteredSorted)
       /\ filteredSorted \in filteredSortedOutcomes(items, query, range, minScore, sortBy)

\* C17: a CSV export writes the header and then exactly one row per
\* exported record in the caller's order: the whole history in ascending
\* time order on the progress page, whatever range, smoothing and
\* visibility are, and the whole filtered and sorted list, every page of
\* it, on the history page
C17_RowPerRecord == [][Clicked => ExportsCallersList]_vars

\* the same for the exports of lists in which every created_at that is
\* present parses as a date
C17_WhenDatesParse ==
  [][Clicked /\ (\A i \in 1..Len(ExportedRecords) : ExportedRecords[i].created_at # BadDate)
       => ExportsCallersList]_vars

\* the history page's file for a list longer than the displayed page
C17_WitnessAllPages ==
  /\ download.t = "file"
  /\ route = "/history"
  /\ pageSize = 5
  /\ Len(filteredSorted) > 5
  /\ Len(CellsOf(download.csv)) = Len(filteredSorted) + 1

\* a click that threw on a record whose created_at is no date
C17_WitnessThrown == download = Thrown

(* ============================ best session ============================ *)

\* the places of the ascending list whose overall score is a number
OverallScored == {i \in 1..Len(sorted) : IsNumber(scoreOf(sorted[i].feedback, "overall"))}

OverallAt(i) == scoreOf(sorted[i].feedback, "overall").v

\* C18: the best session is a record whose overall score is the maximum
\* of the non-null overall scores of the history; of several records with
\* that maximum the first of the ascending-by-time list is reported; none
\* is reported when no record has an overall score
C18_BestSession ==
  \A b \in {best} :
    IF OverallScored = {} THEN b \in {Null, Undef}
    ELSE \E i \in OverallScored :
           /\ b = [h |-> sorted[i], overall |-> Num(OverallAt(i))]
           /\ \A j \in OverallScored :
                /\ OverallAt(j) <= OverallAt(i)
                /\ OverallAt(j) = OverallAt(i) =>
                     i <= j /\ TimeOf(sorted[i]) <= TimeOf(sorted[j])

\* a history in which the maximum is shared and a lower score comes first
C18_Witness ==
  /\ Len(sorted) >= 3
  /\ \E i, j \in OverallScored :
       /\ i < j
       /\ OverallAt(i) = OverallAt(j)
       /\ \A k \in OverallScored : OverallAt(k) <= OverallAt(i)
       /\ \E k \in OverallScored : k < i /\ OverallAt(k) < OverallAt(i)
       /\ \A k \in OverallScored : OverallAt(k) = OverallAt(i) => i <= k
       /\ best.h = sorted[i]

\* records, none of them with an overall score
C18_WitnessNone == Len(sorted) >= 2 /\ OverallScored = {} /\ best = Undef

(* ============================ coaching hint =========================== *)

MaxHintItems == 2

\* what the suggestions of one record can be: none; a later keyword of the
\* list before an earlier one, capitalised; "eye" inside "eyes"; the word
\* eye-contact, and pauses in a second suggestion; "pace" inside "space";
\* an empty suggestion and one without a keyword
HintSuggestions ==
  { <<>>,
    << <<"work on ", "confidence", " and ", "Pace">> >>,
    << <<"keep your ", "eye", "s up">> >>,
    << <<"more ", "eye", "-contact">>, <<"use ", "pauses">> >>,
    << <<"give it ", "s", "pace">> >>,
    << <<>>, <<"smile">> >> }

HintFeedbacks ==
  {Undef} \cup {[Block(70) EXCEPT !.suggestions = s] : s \in HintSuggestions}

InitHint ==
  /\ PageInit
  /\ token \in BOOLEAN
  /\ now = Clock
  /\ zone = Regular
  /\ \/ server = Rejected
     \/ \E k \in 0..MaxHintItems : \E fb \in [1..k -> HintFeedbacks] :
          server = Answer([i \in 1..k |-> Rec(i, Iso(Clock - i * Day), fb[i])])

SpecHint == InitHint /\ [][NextLoad]_vars

\* keyword k occurs in the lower-cased text: in one of the suggestions,
\* since no keyword holds a space
OccursInText(k) ==
  \E i \in 1..Len(items) : \E j \in 1..Len(SuggestionsOf(items[i])) :
    LET s == SuggestionsOf(items[i])[j]
    IN \E p \in 0..(Len(s) - Len(k)) :
         \A q \in 1..Len(k) :
           (IF s[p + q] = "Pace" THEN "pace" ELSE s[p + q]) = k[q]

\* the hint for an ordered list of keywords: the first of the list that
\* occurs in the text, none when none occurs
HintFor(list) ==
  IF \A n \in 1..Len(list) : ~OccursInText(list[n]) THEN Null
  ELSE LET n == CHOOSE n \in 1..Len(list) :
                  OccursInText(list[n]) /\ \A m \in 1..(n - 1) : ~OccursInText(list[m])
       IN Str(<<"Focus on ">> \o list[n] \o <<".">>)

\* C19 as stated, with the list pauses, pace, clarity, fillers, volume,
\* structure, eye-contact, confidence
C19_Original ==
  pc = "done" =>
    topHint = HintFor(<<<<"pauses">>, <<"pace">>, <<"clarity">>, <<"fillers">>, <<"volume">>,
                        <<"structure">>, <<"eye", "-contact">>, <<"confidence">>>>)

\* C19: the coaching hint names the first keyword of the list pauses,
\* pace, clarity, fillers, volume, structure, eye, confidence that occurs
\* in the lower-cased concatenation of all suggestions of the history, by
\* the order of the list and not by the place in the text, and is null
\* when no keyword occurs or there are no suggestions
C19_CoachingHint ==
  pc = "done" =>
    topHint = HintFor(<<<<"pauses">>, <<"pace">>, <<"clarity">>, <<"fillers">>, <<"volume">>,
                        <<"structure">>, <<"eye">>, <<"confidence">>>>)

\* confidence comes before pace in the text, and the hint names pace
C19_Witness ==
  /\ pc = "done"
  /\ Len(sorted) = 1
  /\ sorted[1].feedback # Undef
  /\ sorted[1].feedback.suggestions = << <<"work on ", "confidence", " and ", "Pace">> >>
  /\ topHint = Str(<<"Focus on ", "pace", ".">>)

\* suggestions without a keyword: no hint
C19_WitnessNull ==
  /\ pc = "done"
  /\ Len(suggestions) = 1
  /\ topHint = Null

\* "eye" inside "eyes": the hint names eye
C19_WitnessEye ==
  /\ pc = "done"
  /\ Len(sorted) = 1
  /\ Len(suggestions) = 1
  /\ includes(suggestions[1], <<"eye", "s up">>)
  /\ topHint = Str(<<"Focus on ", "eye", ".">>)

(* ============================ fetch failure =========================== *)

\* the request was rejected and the page has taken note
FetchFailed == pc = "done" /\ ~server.ok

\* every derived result of both pages is the one of an empty history
EmptyResults ==
  /\ items = <<>>
  /\ sorted = <<>>
  /\ filtered = <<>>
  /\ filteredSorted = <<>>
  /\ pageItems = <<>>
  /\ \A k \in KeySet : getAvg(k) = Null
  /\ streak = 0
  /\ mostImproved = Null
  /\ best = Null
  /\ topHint = Null
  /\ \A built \in {basePoints} :
       /\ ~built.threw
       /\ \A i \in 1..Len(built.series) : built.series[i].points = <<>>

\* C20: when the history fetch fails the page ends with the error message
\* set and loading false, and the history behind every derived result is
\* empty: averages, streak, insights, series, the history page's list, and
\* an export, which writes the header only
C20_FetchFailure ==
  /\ [](FetchFailed => err # Null /\ err.t = "str" /\ loading = FALSE /\ EmptyResults)
  /\ [][FetchFailed /\ Clicked =>
          /\ download'.t = "file"
          /\ \A cells \in {CellsOf(download'.csv)} :
               /\ Len(cells) = 1
               /\ cells[1][1] = <<"id">>
               /\ Len(cells[1]) = (IF route = "/progress" THEN 7 ELSE 8)]_vars

\* the failed fetch of each page, followed by an export
C20_Witness ==
  /\ FetchFailed
  /\ route = "/progress"
  /\ err = Message
  /\ download.t = "file"

C20_WitnessHistory ==
  /\ FetchFailed
  /\ route = "/history"
  /\ err = Message
  /\ download.t = "file"

(* ====================== a rejected history request ==================== *)

\* longest history of the guarded pages
MaxAuthItems == 2

\* the backend behind the guarded pages: GET /history answers with a status
\* and, with 200, the history; GET /me answers with a status
Backend(status, data, meStatus) ==
  [ok |-> status = 200, data |-> data, status |-> status, me |-> meStatus]

Statuses == {200, 401, 500}

InitAuth ==
  /\ PageInit \/ HistoryPageInit \/ DashboardInit
  /\ token \in BOOLEAN
  /\ now = Clock
  /\ zone = Regular
  /\ \E meStatus \in Statuses :
       \/ \E status \in Statuses \ {200} : server = Backend(status, <<>>, meStatus)
       \/ \E k \in 0..MaxAuthItems : \E b \in [1..k -> ExportBodies] :
            server = Backend(200, [i \in 1..k |->
                                     [id |-> i, transcript |-> b[i].transcript,
                                      created_at |-> b[i].created_at,
                                      feedback |-> b[i].feedback]], meStatus)

NextAuth ==
  \/ route # "/dashboard" /\ AuthGuard
  \/ route # "/dashboard" /\ FetchFail
  \/ route = "/progress" /\ FetchOk
  \/ HistoryFetchOk
  \/ DashboardGuard
  \/ DashboardFetchOk
  \/ DashboardFetchFail
  \/ MeOk
  \/ MeUnauthorized
  \/ MeFail

SpecAuth == InitAuth /\ [][NextAuth]_vars

\* the step in which the rejection of GET /history reaches the page: the
\* finally block clears loading
HistoryRequestFails == pc = "fetching" /\ ~server.ok /\ loading /\ ~loading'

\* C21: when the history request fails as unauthenticated (status 401) the
\* page redirects to the login page instead of only showing a message; on
\* any other failure it shows a message
C21_Unauthenticated ==
  [][HistoryRequestFails =>
       IF server.status = 401 THEN pc' = "login" ELSE pc' = "done" /\ err' # Null]_vars

\* what the three pages do: every failure of the history request, the
\* unauthenticated one too, sets the message and leaves the page mounted
C21_MessageOnly == [][HistoryRequestFails => pc' = "done" /\ err' = Message]_vars

\* a page that shows the message of a request rejected with 401, its
\* token still stored
C21_WitnessStays ==
  /\ pc = "done"
  /\ server.status = 401
  /\ err = Message
  /\ token

\* the dashboard leaves for the login page when GET /me is rejected with 401
C21_WitnessLogout == route = "/dashboard" /\ pc = "login" /\ ready /\ ~token

(* ========================= one request per load ======================= *)

\* longest history but the long one
MaxOnceItems == 2

\* the answer lists the newest record first, the records an hour apart
InitOnce ==
  /\ PageInit \/ HistoryPageInit
  /\ token \in BOOLEAN
  /\ now = Clock
  /\ zone = Regular
  /\ \/ server = Rejected
     \/ server = LongHistory
     \/ \E k \in 0..MaxOnceItems : \E f \in [1..k -> HoverFeedbacks] :
          server = Answer([i \in 1..k |-> Rec(i, Iso(Clock - i), f[i])])

\* every operation of the two pages
NextOnce ==
  \/ NextExport
  \/ route = "/progress" /\ \E mx \in {450}, my \in {83} : handleMouse(mx, my)
  \/ route = "/progress" /\ handleLeave

SpecOnce == InitOnce /\ [][NextOnce]_vars

\* the step in which the fetch effect issues GET /history
Issued == pc # "fetching" /\ pc' = "fetching"

\* C22: during one page load the history request is issued at most once,
\* by the mounting page and only with a token stored: once it has
\* succeeded or failed no operation of the page (range, smoothing,
\* visibility, filter, sort, pagination, export, hover) issues another
C22_OneShot ==
  [][/\ Issued => pc = "mount" /\ token /\ token'
     /\ pc # "mount" => pc' # "mount"]_vars

\* a page whose request was answered and whose controls were used since
C22_Witness ==
  /\ pc = "done"
  /\ download # Null
  /\ \/ route = "/progress" /\ range = "7" /\ ~smooth /\ ~visible["overall"] /\ hover # Null
     \/ route = "/history" /\ range = "7" /\ query # <<>> /\ minScore # Null
          /\ sortBy = "score_asc" /\ pageSize = 5

\* a page that was mounted without a token and left for the login page
C22_WitnessNoToken == pc = "login" /\ ~token /\ ~ready

(* ============================ empty history =========================== *)

\* GET /history answered with no record at all
EmptyHistory == pc = "done" /\ server.ok /\ server.data = <<>>

\* C23: with an empty history nothing throws and every derived result is
\* the explicit empty one: no error, averages null, streak 0, no insights,
\* series without points, the chart's empty state in place of the svg, and
\* an export that writes the header only
C23_EmptyHistory ==
  /\ [](EmptyHistory =>
          /\ err = Null
          /\ loading = FALSE
          /\ EmptyResults
          /\ ~ChartShown(basePoints))
  /\ [][EmptyHistory /\ Clicked =>
          /\ download' # Thrown
          /\ download'.t = "file"
          /\ \A cells \in {CellsOf(download'.csv)} :
               /\ Len(cells) = 1
               /\ cells[1] = (IF route = "/progress" THEN csvHeader ELSE historyHeader)]_vars

\* the empty history of the progress page, exported
C23_Witness ==
  /\ EmptyHistory
  /\ route = "/progress"
  /\ ready
  /\ download # Null
  /\ download.t = "file"

\* the same on the history page
C23_WitnessHistory ==
  /\ EmptyHistory
  /\ route = "/history"
  /\ download # Null
  /\ download.t = "file"

(* ============================== the scales ============================ *)

Whole(n) == Frac(n, 1)

\* C24: for every chart that has a point the horizontal scale maps the
\* least timestamp to padding and, when there is a greater one, the
\* greatest to w - padding, every point's x lying between the two; when
\* all points share one timestamp the denominator is 1 and every point is
\* drawn at x = padding; the vertical scale maps 0 to h - padding and 100
\* to padding and falls as the score rises, so every score from 0 to 100
\* is drawn between padding and h - padding, higher scores higher
C24_Scales ==
  \A built \in {basePoints} :
    ChartShown(built) =>
      \A pts \in {flatPoints(built.series)} :
        \A lo \in {minX(pts)}, hi \in {maxX(pts)} :
          /\ xScale(lo, lo, hi) = Whole(padding)
          /\ hi > lo => xScale(hi, lo, hi) = Whole(w - padding)
          /\ hi = lo => /\ max(1, hi - lo) = 1
                        /\ \A i \in 1..Len(pts) : xScale(pts[i].x, lo, hi) = Whole(padding)
          /\ \A i \in 1..Len(pts) :
               /\ ~FracLess(xScale(pts[i].x, lo, hi), Whole(padding))
               /\ ~FracLess(Whole(w - padding), xScale(pts[i].x, lo, hi))
               /\ xScale(pts[i].x, lo, hi).d > 0
               /\ ~FracLess(yScale(pts[i].y), Whole(padding))
               /\ ~FracLess(Whole(h - padding), yScale(pts[i].y))
               /\ \A j \in 1..Len(pts) :
                    FracLess(pts[i].y, pts[j].y) => FracLess(yScale(pts[j].y), yScale(pts[i].y))
          /\ yScale(Whole(0)) = Whole(h - padding)
          /\ yScale(Whole(100)) = Whole(padding)
          /\ \A s \in 0..99 : FracLess(yScale(Whole(s + 1)), yScale(Whole(s)))

\* a chart whose points lie at more than one timestamp and at more than
\* one score
C24_Witness ==
  \E built \in {basePoints} :
    /\ ChartShown(built)
    /\ \E pts \in {flatPoints(built.series)} :
         /\ minX(pts) < maxX(pts)
         /\ \E i, j \in 1..Len(pts) : FracLess(pts[i].y, pts[j].y)

\* a chart all of whose points share one timestamp
C24_WitnessOne ==
  \E built \in {basePoints} :
    /\ ChartShown(built)
    /\ \E pts \in {flatPoints(built.series)} : minX(pts) = maxX(pts) /\ Len(pts) > 1

(* ====================== resolution, field by field ==================== *)

\* sections and block entries of the category looked at, and of the others
ResolveSections ==
  {Undef, Prose, Obj(TRUE, Null), Obj(TRUE, Num(80)),
   Str(<<"{", "\"score\"", ":", "80", "}">>)}
ResolveFeedbacks ==
  {Undef} \cup
  {Fb([j \in KeySet |-> IF j = k THEN sec ELSE osec],
      ScoreMap([j \in KeySet |-> IF j = k THEN b ELSE o])) :
     k \in {"overall", "opening"}, sec \in ResolveSections,
     osec \in {Prose, Obj(TRUE, Num(90))}, b \in {Undef, Num(60)}, o \in {Undef, Num(70)}}

\* a history of two records, loaded by the progress page or by the dashboard
InitResolve ==
  /\ PageInit \/ DashboardInit
  /\ token \in BOOLEAN
  /\ now = Clock
  /\ zone = Regular
  /\ \E f \in ResolveFeedbacks : \E g \in ResolveFeedbacks :
       server = Backend(200, <<Rec(1, Iso(Clock - 2), f), Rec(2, Iso(Clock - 1), g)>>, 200)

NextResolve ==
  \/ route = "/progress" /\ AuthGuard
  \/ route = "/progress" /\ FetchOk
  \/ DashboardGuard
  \/ DashboardFetchOk
  \/ MeOk

SpecResolve == InitResolve /\ [][NextResolve]_vars

\* fb[c] and fb.scores[c] of two feedback values are the same
AgreeOn(f, g, c) ==
  /\ f.t = g.t
  /\ f.t = "fb" => f.sec[c] = g.sec[c] /\ BlockScore(f, c) = BlockScore(g, c)

\* the page's scoreOf
ResolvedHere(fb, c) ==
  IF route = "/dashboard" THEN dashboardScoreOf(fb, c) ELSE scoreOf(fb, c)

Loaded == pc = "done" /\ err = Null /\ Len(items) = 2

\* C25: the score resolved for a category depends only on that category's
\* section and that category's entry of the scores block: two feedback
\* values that agree on the two resolve the category to the same score,
\* whatever the other four categories hold
C25_OwnFields ==
  Loaded =>
    \A c \in KeySet :
      AgreeOn(items[1].feedback, items[2].feedback, c) =>
        ResolvedHere(items[1].feedback, c) = ResolvedHere(items[2].feedback, c)

\* the same of the progress page's scoreOf alone
C25_ProgressPage == route = "/progress" => C25_OwnFields

\* two records of the progress page that agree on overall and differ elsewhere
C25_WitnessProgress ==
  /\ Loaded
  /\ route = "/progress"
  /\ items[1].feedback # items[2].feedback
  /\ items[1].feedback.t = "fb"
  /\ AgreeOn(items[1].feedback, items[2].feedback, "overall")
  /\ IsNumber(scoreOf(items[1].feedback, "overall"))

(* ========================= the stored history ========================= *)

\* what setItems was called with when the request was answered: the
\* normalized records in the answer's order
Received == [i \in 1..Len(server.data) |-> Normalize(server.data[i]).val]

\* C26: no derived computation (sort, range filter, averages, streak,
\* insights, series and smoothing, chart, hover, export, the history
\* page's filter, sort and pagination) changes the stored history or a
\* record of it: after any sequence of operations it is the value set
\* when the fetch completed
C26_Snapshot ==
  /\ [](pc = "done" /\ server.ok /\ err = Null => items = Received)
  /\ [][pc = "done" => items' = items]_vars

\* a stored history in the answer's order beside its ascending copy, after
\* the controls, the pointer and the export were used
C26_Witness ==
  /\ pc = "done"
  /\ route = "/progress"
  /\ Len(items) > 1
  /\ items = Received
  /\ sorted # items
  /\ range = "7"
  /\ hover # Null
  /\ download # Null

\* the same beside the history page's list, sorted by score
C26_WitnessHistory ==
  /\ pc = "done"
  /\ route = "/history"
  /\ Len(items) > 1
  /\ items = Received
  /\ sortBy = "score_asc"
  /\ Len(filteredSorted) = Len(items)
  /\ filteredSorted # items
  /\ download # Null

(* ============================ two averages ============================ *)

\* longest history the two averages are taken of
MaxAverageItems == 2

\* the overall score inside the section object, inside a JSON-encoded
\* string section, and in the scores block only
InlineOnly(v) ==
  Fb([k \in KeySet |-> IF k = "overall" THEN Obj(TRUE, Num(v)) ELSE Prose], Undef)
StringOnly ==
  Fb([k \in KeySet |->
        IF k = "overall" THEN Str(<<"{", "\"score\"", ":", "80", "}">>) ELSE Prose], Undef)
NoScore == Fb([k \in KeySet |-> Prose], Undef)

AverageFeedbacks == {Undef, NoScore, InlineOnly(75), InlineOnly(90), StringOnly, Block(60)}

InitAverage ==
  /\ PageInit \/ DashboardInit
  /\ token \in BOOLEAN
  /\ now = Clock
  /\ zone = Regular
  /\ \E k \in 0..MaxAverageItems : \E f \in [1..k -> AverageFeedbacks] :
       server = Backend(200, [i \in 1..k |-> Rec(i, Iso(Clock - i * Day), f[i])], 200)

NextAverage ==
  \/ route = "/progress" /\ AuthGuard
  \/ route = "/progress" /\ FetchOk
  \/ route = "/progress" /\ \E r \in {"30", "all"} : SetRange(r)
  \/ DashboardGuard
  \/ DashboardFetchOk
  \/ MeOk

SpecAverage == InitAverage /\ [][NextAverage]_vars

\* the one-decimal mean of the numeric resolved overall scores of a raw
\* history, its string sections decoded
OverallMean(raw) ==
  LET scores == [i \in 1..Len(raw) |->
                   Resolved(NormalizeFeedback(raw[i].feedback).val, "overall")]
      nums == SelectSeq(scores, IsNumber)
  IN IF Len(nums) = 0 THEN Null
     ELSE Tenths(MathRound(Sum([i \in 1..Len(nums) |-> nums[i].v]) * 10, Len(nums)))

\* the average the mounted page shows
PageAverage == IF route = "/dashboard" THEN avgOverall ELSE getAvg("overall")

Answered == pc = "done" /\ server.ok /\ err = Null

\* C27: for the same raw history the dashboard's average score and the
\* progress page's overall average with range 'all' are equal: each is the
\* one-decimal mean of the resolved overall scores that are numbers, the
\* scores that are only in the scores block or only inside a JSON-encoded
\* string section included
C27_SameAverage ==
  Answered /\ (route = "/progress" => range = "all") => PageAverage = OverallMean(server.data)

\* the same for the histories whose overall scores are all inside section objects
C27_InlineScores ==
  (\A i \in 1..Len(server.data) :
     server.data[i].feedback \in {Undef, NoScore, InlineOnly(75), InlineOnly(90)})
  => C27_SameAverage

\* the progress page's average of a block score and a string section's score
C27_WitnessProgress ==
  /\ Answered
  /\ route = "/progress"
  /\ range = "all"
  /\ \E i, j \in 1..Len(server.data) :
       server.data[i].feedback = StringOnly /\ server.data[j].feedback = Block(60)
  /\ getAvg("overall") = Tenths(700)

\* the dashboard's average of two scores inside section objects
C27_WitnessDashboard ==
  /\ Answered
  /\ route = "/dashboard"
  /\ \E i, j \in 1..Len(server.data) :
       server.data[i].feedback = InlineOnly(75) /\ server.data[j].feedback = InlineOnly(90)
  /\ avgOverall = Tenths(825)

\* the dashboard shows no average for a history of a block score and a
\* string section's score
C27_WitnessDropped ==
  /\ Answered
  /\ route = "/dashboard"
  /\ \E i, j \in 1..Len(server.data) :
       server.data[i].feedback = StringOnly /\ server.data[j].feedback = Block(60)
  /\ avgOverall = Null

(* ======================= a created_at that is no date ================= *)

\* the records whose created_at is a string that does not parse as a date
Unparseable == {i \in 1..Len(items) : items[i].created_at = BadDate}

\* the series are built and none has a point of an unparseable record
SeriesComplete ==
  \A built \in {basePoints} :
    /\ ~built.threw
    /\ \A n \in 1..Len(built.series) : \A p \in 1..Len(built.series[n].points) :
         \A i \in Unparseable : built.series[n].points[p].id # items[i].id

\* C28: for every history, one with records whose created_at is a
\* non-empty string that is no date included, series building and CSV
\* export complete without throwing, and such a record gives no chart point
C28_NeverThrows ==
  /\ [](pc = "done" /\ route = "/progress" => SeriesComplete)
  /\ [][Clicked => download' # Thrown]_vars

\* the same for the histories in which every created_at parses
C28_DatesParse ==
  /\ [](pc = "done" /\ route = "/progress" /\ Unparseable = {} => SeriesComplete)
  /\ [][Clicked /\ Unparseable = {} => download' # Thrown]_vars

\* with range 'all' the series of a history with such a record are not built
C28_WitnessSeries ==
  /\ pc = "done"
  /\ route = "/progress"
  /\ range = "all"
  /\ Unparseable # {}
  /\ basePoints.threw

\* a finite window drops the record first, and the series are built
C28_WitnessWindow ==
  /\ pc = "done"
  /\ route = "/progress"
  /\ range = "7"
  /\ Unparseable # {}
  /\ ~basePoints.threw

(* ============================== pagination ============================ *)

\* Math.ceil(total / pageSize), by its definition
CeilDiv(n, d) == CHOOSE q \in 0..n : q * d >= n /\ (q = 0 \/ (q - 1) * d < n)

\* C29: on the history page, whatever filter, sort, page size and
\* Prev/Next clicks came before and after the history arrived, the page
\* shown satisfies 1 <= safePage <= totalPages = max(1, ceil(total /
\* pageSize)), and the items shown are the records at the places
\* (safePage - 1) * pageSize + 1 .. min(safePage * pageSize, total) of the
\* filtered and sorted list, at least one of them when total > 0
C29_Pagination ==
  route = "/history" =>
    \A total \in {Len(filteredSorted)} :
      \A first \in {(safePage - 1) * pageSize + 1}, last \in {min(safePage * pageSize, total)} :
        /\ totalPages = max(1, CeilDiv(total, pageSize))
        /\ 1 <= safePage
        /\ safePage <= totalPages
        /\ Len(pageItems) = (IF last >= first THEN last - first + 1 ELSE 0)
        /\ \A k \in 1..Len(pageItems) : pageItems[k] = filteredSorted[first + k - 1]
        /\ total > 0 => Len(pageItems) > 0 /\ first <= last

\* the second page of a list of more than five records, five to a page
C29_Witness ==
  /\ route = "/history"
  /\ pc = "done"
  /\ pageSize = 5
  /\ Len(filteredSorted) > 5
  /\ page = 2
  /\ safePage = 2
  /\ Len(pageItems) = Len(filteredSorted) - 5

\* a filter has shortened the list of more than five records to one page
C29_WitnessFiltered ==
  /\ route = "/history"
  /\ pc = "done"
  /\ pageSize = 5
  /\ Len(items) > 5
  /\ minScore # Null
  /\ page = 1
  /\ totalPages = 1
  /\ Len(pageItems) \in 1..5

(* ====================== the saved list and a request ================== *)

\* the lists an earlier visit may have saved
SavedLists ==
  {<<>>} \cup
  {<<GenItem(1, "speech", l, "prompt")>> : l \in BOOLEAN} \cup
  {<<GenItem(1, "speech", l, "prompt"), GenItem(2, "speech", FALSE, "prompt")>> :
     l \in BOOLEAN}

InitGenerate ==
  /\ GenerateInit
  /\ token \in BOOLEAN
  /\ now = Clock
  /\ zone = Regular
  /\ server = Rejected
  /\ storage \in {l \in SavedLists : Len(l) <= MaxGenItems}

NextGenerate ==
  \/ GenerateMount
  \/ handleGenerate
  \/ \E id \in 1..MaxGenItems : refineWith(id)
  \/ RequestOk
  \/ RequestFail
  \/ \E id \in 1..MaxGenItems : handleDelete(id)
  \/ \E id \in 1..MaxGenItems : toggleLike(id)
  \/ \E id \in 1..MaxGenItems : setTitle(id, "edited")
  \/ clearAll

SpecGenerate == InitGenerate /\ [][NextGenerate]_vars

\* the step in which the k-th request in flight is answered with a text
AnsweredWithText(k) == request' = Without(request, k) /\ err' = Null /\ ~loading'

\* list with nothing changed but what the answer to request r is for: a
\* new speech at its end, or the new text of the speech that was refined
OwnItemOnly(r, list, after) ==
  IF r.kind = "generate"
  THEN /\ Len(after) = Len(list) + 1
       /\ SubSeq(after, 1, Len(list)) = list
       /\ \A i \in 1..Len(list) : list[i].id # after[Len(after)].id
  ELSE /\ Len(after) = Len(list)
       /\ \A i \in 1..Len(list) :
            IF list[i].id = r.id
            THEN after[i] = [list[i] EXCEPT !.text = after[i].text]
            ELSE after[i] = list[i]

\* C30: on the generate page what the user changed in the saved list while
\* a generate or refine request was in flight (a speech deleted, its
\* favorite flag toggled, its title edited, the list cleared) is still in
\* effect once the answer has arrived: the answer adds or updates its own
\* speech only and never brings back the list of the moment the request
\* was sent; and at most one request is in flight at a time
C30_SavedList ==
  /\ [](Len(request) <= 1)
  /\ [][\A k \in 1..Len(request) :
          AnsweredWithText(k) =>
            /\ OwnItemOnly(request[k], storage, storage')
            /\ items' = storage']_vars

\* at most one request is in flight, and the saved list is what the page holds
C30_OneInFlight == Len(request) <= 1 /\ (ready => items = storage)

\* the same for the answers to requests during which the list was left alone
C30_ListLeftAlone ==
  [][\A k \in 1..Len(request) :
       AnsweredWithText(k) /\ storage = request[k].items =>
         /\ OwnItemOnly(request[k], storage, storage')
         /\ items' = storage']_vars

\* a request in flight, the list changed since it was sent
C30_WitnessInFlight ==
  /\ Len(request) = 1
  /\ loading
  /\ request[1].items # storage

====
